---- MODULE Spec2Model ----
(***************************************************************************)
(* NetBoost Pro (src-tauri): the packet pipeline of the virtual adapter,   *)
(* its routing policy engine, its performance monitor and the start/stop   *)
(* commands of the application, as state machines.                         *)
(*                                                                         *)
(*   SpecSelect  the selection policies of PacketRouter as pure functions  *)
(*               of an interface slice and a metrics map                   *)
(*   SpecRouter  one PacketRouter: route_packet, update_interface_metrics, *)
(*               set_load_balancing_mode                                   *)
(*   SpecRoute   the same, over any interface catalog                      *)
(*   Spec        one VirtualNetworkInterface::run(): reader, queue,        *)
(*               processor, monitor loop, PerformanceMonitor locks         *)
(*   SpecApp     AppState with start_netboost / stop_netboost and the      *)
(*               background task each start spawns                         *)
(*   SpecMonitor one PerformanceMonitor and a task calling its API, one    *)
(*               call after the other                                      *)
(*   SpecControl SpecApp with one client starting and stopping and one     *)
(*               issuing get_performance_stats / set_load_balancing_mode   *)
(*   SpecWindow  the history windows of PerformanceMonitor as functions of *)
(*               a window and a sample                                     *)
(*   SpecClassify route_packet on packets to every port the classifier's   *)
(*               tables name                                               *)
(*   SpecReset   one PerformanceMonitor, a task making record calls and a  *)
(*               second task calling reset_stats                           *)
(***************************************************************************)
EXTENDS Integers, Sequences, FiniteSets, TLC

(***************************************************************************)
(* Bounds of the model.                                                    *)
(***************************************************************************)
\* packets the TUN device delivers in one run
MaxPackets == 4
\* capacity of the packet queue: mpsc::channel(1000), scaled down
QueueCapacity == 2
\* PerformanceMonitor.max_history_size: 1000, scaled down
max_history_size == 2
\* adapters start_netboost may build in one behaviour (SpecApp)
MaxAdapters == 2
\* route_packet calls explored on one router (SpecRouter)
MaxRouteCalls == 4
\* the top of the model's u64 range: stands for u64::MAX (packet_router.rs:227)
U64_MAX == 1000

(***************************************************************************)
(* Program constants.                                                      *)
(***************************************************************************)
\* Duration::from_millis(9999): latency substituted for a missing entry
DefaultLatencyMs == 9999
\* metric.latency.as_millis() < 50 in calculate_confidence
ConfidenceLatencyMs == 50
\* the monitor loop's update_interface_metrics(1, Duration::from_millis(20), ..)
MonitoredInterface == 1
SimulatedLatencyMs == 20

\* Option<T>: None is <<>>, Some(x) is <<x>>
None == <<>>
Some(x) == <<x>>

(***************************************************************************)
(* Exact non-negative fractions [n, d] (d > 0) stand for the f32 values of *)
(* the code (packet_loss, scores, confidence).                             *)
(***************************************************************************)
Frac(n, d) == [n |-> n, d |-> d]

RECURSIVE FracLess(_, _, _, _)
\* a/b < c/d for a, c >= 0 and b, d > 0, without cross-multiplying
FracLess(a, b, c, d) ==
    LET q1 == a \div b
        q2 == c \div d
        r1 == a % b
        r2 == c % d
    IN  IF q1 # q2 THEN q1 < q2
        ELSE IF r2 = 0 THEN FALSE
        ELSE IF r1 = 0 THEN TRUE
        ELSE FracLess(d, r2, b, r1)

\* Ordering of x.partial_cmp(&y) / x.cmp(&y)
FracCmp(x, y) ==
    IF FracLess(x.n, x.d, y.n, y.d) THEN "Less"
    ELSE IF FracLess(y.n, y.d, x.n, x.d) THEN "Greater"
    ELSE "Equal"

IntCmp(x, y) == IF x < y THEN "Less" ELSE IF x > y THEN "Greater" ELSE "Equal"

(***************************************************************************)
(* interface_manager.rs                                                    *)
(***************************************************************************)
\* PhysicalInterface.index of the interfaces a catalog may hold
IfIndexes == {1, 2}

\* InterfaceManager::discover_interfaces: "Ethernet" (index 1), "WiFi" (index 2)
DiscoveredInterfaces == <<1, 2>>

\* InterfaceManager::get_primary_interface: self.interfaces.first()
get_primary_interface(ifs) == IF ifs = <<>> THEN None ELSE Some(ifs[1])

(***************************************************************************)
(* packet_router.rs: classification                                        *)
(*                                                                         *)
(* A packet is [len, ethertype, protocol, dport, sport]; the IPv4 header   *)
(* carries no options, so the transport header starts at byte 34.          *)
(***************************************************************************)
EthernetHeaderLen == 14
Ipv4HeaderLen == 20
TcpHeaderLen == 20
UdpHeaderLen == 8

Packet(len, ethertype, protocol, dport, sport) ==
    [len |-> len, ethertype |-> ethertype, protocol |-> protocol,
     dport |-> dport, sport |-> sport]

\* Result<TrafficInfo>: Ok(TrafficInfo { traffic_type, priority, .. }) or Err
TrafficInfo(t, p) == [kind |-> "Ok", traffic_type |-> t, priority |-> p]
ParseErr == [kind |-> "Err", traffic_type |-> "Unknown", priority |-> 0]

classify_tcp_traffic(dest_port, src_port) ==
    IF dest_port \in {80, 443, 8080, 8443} THEN TrafficInfo("Web", 2)
    ELSE IF dest_port \in 1024..5000 THEN TrafficInfo("Gaming", 4)
    ELSE IF dest_port \in {21, 22, 990, 989} THEN TrafficInfo("File", 1)
    ELSE IF dest_port \in {1935, 554} THEN TrafficInfo("Streaming", 3)
    ELSE IF src_port \in {80, 443} THEN TrafficInfo("Web", 2)
    ELSE TrafficInfo("Unknown", 1)

classify_udp_traffic(dest_port) ==
    IF dest_port = 53 THEN TrafficInfo("Web", 3)
    ELSE IF dest_port \in ({3074, 27015} \cup (7777..7784)) THEN TrafficInfo("Gaming", 4)
    ELSE IF dest_port \in {5004, 5005, 1234} THEN TrafficInfo("Streaming", 3)
    ELSE IF dest_port \in {5060, 5061} THEN TrafficInfo("Gaming", 4)
    ELSE TrafficInfo("Unknown", 1)

\* Ipv4Packet::new is None on a short payload: Err
analyze_ipv4_packet(pkt) ==
    LET payload == pkt.len - EthernetHeaderLen
        transport == payload - Ipv4HeaderLen
    IN  IF payload < Ipv4HeaderLen THEN ParseErr
        ELSE IF pkt.protocol = "Tcp"
             THEN IF transport >= TcpHeaderLen
                  THEN classify_tcp_traffic(pkt.dport, pkt.sport)
                  ELSE TrafficInfo("Web", 2)
        ELSE IF pkt.protocol = "Udp"
             THEN IF transport >= UdpHeaderLen
                  THEN classify_udp_traffic(pkt.dport)
                  ELSE TrafficInfo("Unknown", 1)
        ELSE TrafficInfo("Unknown", 1)

\* EthernetPacket::new is None on a short buffer: Err
analyze_packet(pkt) ==
    IF pkt.len < EthernetHeaderLen THEN ParseErr
    ELSE IF pkt.ethertype = "Ipv4" THEN analyze_ipv4_packet(pkt)
    ELSE TrafficInfo("Unknown", 1)

(***************************************************************************)
(* packet_router.rs: selection policies.  An interface slice is a sequence *)
(* of interface indexes; a metrics map (HashMap<u32, PacketMetrics>) is a  *)
(* function from the indexes that have an entry to PacketMetrics records.  *)
(***************************************************************************)
PacketMetrics(latency, bandwidth_usage, packet_loss) ==
    [latency |-> latency, bandwidth_usage |-> bandwidth_usage,
     packet_loss |-> packet_loss]

\* the elements of a slice
Elems(s) == {s[k] : k \in 1..Len(s)}

\* Iterator::min_by under the comparison cmp[a, b]: the first of the minimal
\* elements
MinBy(s, cmp) ==
    IF s = <<>> THEN None
    ELSE LET best[i \in 1..Len(s)] ==
                 IF i = 1 THEN s[1]
                 ELSE IF cmp[best[i - 1], s[i]] = "Greater" THEN s[i]
                 ELSE best[i - 1]
         IN  Some(best[Len(s)])

\* Iterator::max_by under the comparison cmp[a, b]: the last of the maximal
\* elements
MaxBy(s, cmp) ==
    IF s = <<>> THEN None
    ELSE LET best[i \in 1..Len(s)] ==
                 IF i = 1 THEN s[1]
                 ELSE IF cmp[best[i - 1], s[i]] = "Greater" THEN best[i - 1]
                 ELSE s[i]
         IN  Some(best[Len(s)])

\* variant: a missing entry counts as the default Duration (0 ms)
LatencyOfZeroDefault(metrics, i) ==
    IF i \notin DOMAIN metrics THEN 0 ELSE metrics[i].latency

\* metrics.get(&a.index).map(|m| m.latency).unwrap_or(Duration::from_millis(9999))
LatencyOf(metrics, i) ==
    IF i \notin DOMAIN metrics THEN DefaultLatencyMs ELSE metrics[i].latency

\* variant: a missing entry counts as usage 0
UsageOfZeroDefault(metrics, i) ==
    IF i \notin DOMAIN metrics THEN 0 ELSE metrics[i].bandwidth_usage

\* metrics.get(&a.index).map(|m| m.bandwidth_usage).unwrap_or(u64::MAX)
UsageOf(metrics, i) ==
    IF i \notin DOMAIN metrics THEN U64_MAX ELSE metrics[i].bandwidth_usage

select_by_latency(interfaces, metrics) ==
    LET cmp == [a \in Elems(interfaces), b \in Elems(interfaces) |->
                   IntCmp(LatencyOf(metrics, a), LatencyOf(metrics, b))]
    IN  MinBy(interfaces, cmp)

select_by_bandwidth(interfaces, metrics) ==
    LET cmp == [a \in Elems(interfaces), b \in Elems(interfaces) |->
                   IntCmp(UsageOf(metrics, b), UsageOf(metrics, a))]
    IN  MaxBy(interfaces, cmp)

\* variant: the score is the reliability term alone, (1 - packet_loss) * 0.2
calculate_interface_score_reliability_only(i, metrics) ==
    IF i \notin DOMAIN metrics THEN Frac(0, 1)
    ELSE Frac(metrics[i].packet_loss.d - metrics[i].packet_loss.n,
              5 * metrics[i].packet_loss.d)

\* (latency_score * 0.4) + (bandwidth_score * 0.4) + (reliability_score * 0.2)
\*   = 400/(l+1) + (2/5)/(b+1) + (1/5)(1 - n/d), over the denominator 5(l+1)(b+1)d
calculate_interface_score(i, metrics) ==
    IF i \notin DOMAIN metrics THEN Frac(0, 1)
    ELSE LET l1 == metrics[i].latency + 1
             b1 == metrics[i].bandwidth_usage + 1
             n == metrics[i].packet_loss.n
             d == metrics[i].packet_loss.d
         IN  Frac(2000 * b1 * d + 2 * l1 * d + (d - n) * l1 * b1, 5 * l1 * b1 * d)

select_weighted_best(interfaces, metrics) ==
    LET cmp == [a \in Elems(interfaces), b \in Elems(interfaces) |->
                   FracCmp(calculate_interface_score(a, metrics),
                           calculate_interface_score(b, metrics))]
    IN  MaxBy(interfaces, cmp)

\* variant: Streaming delegates to the latency policy
select_balanced_streaming_by_latency(interfaces, metrics, traffic_type) ==
    CASE traffic_type = "Gaming" -> select_by_latency(interfaces, metrics)
      [] traffic_type = "Streaming" -> select_by_latency(interfaces, metrics)
      [] traffic_type = "File" -> select_by_bandwidth(interfaces, metrics)
      [] OTHER -> select_weighted_best(interfaces, metrics)

select_balanced(interfaces, metrics, traffic_type) ==
    CASE traffic_type = "Gaming" -> select_by_latency(interfaces, metrics)
      [] traffic_type = "Streaming" -> select_by_bandwidth(interfaces, metrics)
      [] traffic_type = "File" -> select_by_bandwidth(interfaces, metrics)
      [] OTHER -> select_weighted_best(interfaces, metrics)

\* interfaces.get(*counter % interfaces.len()); the caller stores counter + 1
select_round_robin(interfaces, counter) ==
    Some(interfaces[(counter % Len(interfaces)) + 1])

calculate_confidence_inclusive(i, metrics) ==
    IF i \notin DOMAIN metrics THEN Frac(1, 2)
    ELSE LET n == metrics[i].packet_loss.n
             d == metrics[i].packet_loss.d
             c == IF metrics[i].latency <= ConfidenceLatencyMs THEN 9 ELSE 6
         IN  Frac(c * d + 10 * (d - n), 20 * d)

\* (latency_confidence + loss_confidence) / 2.0, or 0.5 without metrics
calculate_confidence(i, metrics) ==
    IF i \notin DOMAIN metrics THEN Frac(1, 2)
    ELSE LET n == metrics[i].packet_loss.n
             d == metrics[i].packet_loss.d
             c == IF metrics[i].latency < ConfidenceLatencyMs THEN 9 ELSE 6
         IN  Frac(c * d + 10 * (d - n), 20 * d)

\* vec![self.interface_manager.get_primary_interface().unwrap().clone()]:
\* unwrap() panics on None
get_available_interfaces(ifs) ==
    [panicked |-> get_primary_interface(ifs) = None,
     interfaces |-> get_primary_interface(ifs)]

RouteResult(kind, index, confidence, reason) ==
    [kind |-> kind, interface_index |-> index, confidence |-> confidence,
     reason |-> reason]

\* PacketRouter::route_packet as a function of the router's state: the result
\* (Ok(RoutingDecision), an Err or a panic) and the new round-robin cursor.
route_packet(pkt, ifs, mode, counter, metrics) ==
    LET traffic_info == analyze_packet(pkt)
        available == get_available_interfaces(ifs)
        selected ==
            CASE mode = "RoundRobin" -> select_round_robin(available.interfaces, counter)
              [] mode = "LatencyBased" -> select_by_latency(available.interfaces, metrics)
              [] mode = "BandwidthBased" -> select_by_bandwidth(available.interfaces, metrics)
              [] OTHER -> select_balanced(available.interfaces, metrics,
                                          traffic_info.traffic_type)
        failed(kind) == [result |-> RouteResult(kind, 0, Frac(0, 1), mode),
                         counter |-> counter]
    IN  IF traffic_info.kind = "Err" THEN failed("ErrParse")
        ELSE IF available.panicked THEN failed("Panic")
        ELSE IF available.interfaces = <<>> THEN failed("ErrNoInterfaces")
        ELSE IF selected = None THEN failed("ErrNoSelection")
        ELSE [result |-> RouteResult("Ok", selected[1],
                                     calculate_confidence(selected[1], metrics), mode),
              counter |-> IF mode = "RoundRobin" THEN counter + 1 ELSE counter]

(***************************************************************************)
(* State.                                                                  *)
(***************************************************************************)
VARIABLES
    \* InterfaceManager.interfaces and the PacketRouter built on it
    interfaces, load_balancing_mode, round_robin_counter, interface_metrics,
    \* calls made on the router and the selection policies, and what they returned
    sel, lastRoute, rrTrace, routeCalls, lastUpdate,
    \* PerformanceMonitor: stats, the two histories and their RwLocks
    stats, latency_history, throughput_history,
    stats_lock, latency_lock, throughput_lock,
    \* VirtualNetworkInterface: the running flag, the RwLock around the router,
    \* run() and the three tasks it spawns, the mpsc channel between them
    is_running, router_lock, runPc,
    readerPc, readerBuf, delivered, discarded, queue,
    procPc, procPkt, procDecision, procLocal,
    monitorPc, monitorStats,
    \* history of the run: packets in the order enqueued, and in the order
    \* process_packet took them with what happened to each
    enqueued, processed,
    \* AppState and the commands running on it: is_running, virtual_interface
    \* and its RwLock; per command invocation its position, the adapter it
    \* built and its result; per adapter the background task of its start,
    \* the adapter's running flag, its life cycle and its live loops
    app_is_running, virtual_interface, vni_lock,
    cmdPc, cmdVni, cmdResult, cmdTargets,
    bgPc, bgVni, vniFlag, vniState, live, stalled,
    \* adapters whose start_netboost returned Ok, adapters a successful
    \* stop_netboost was for
    started, stopped,
    \* a caller of the PerformanceMonitor API: the time in ticks since the
    \* program started, PerformanceMonitor.start_time, the caller's position
    \* in the call it makes, the call's argument and local, the calls made so
    \* far and the last snapshot get_current_stats returned
    clock, start_time, callerPc, callerArg, callerLocal, calls, snapshot,
    \* a second task that calls reset_stats: its position in the call
    resetPc,
    \* per adapter the load-balancing mode of its PacketRouter; a client of
    \* the commands get_performance_stats and set_load_balancing_mode: its
    \* position in the command it runs, the command, the mode argument of a
    \* call in progress, and the result of its last call
    vniMode, ctlPc, ctlOp, ctlArg, ctlResult

routerVars == <<interfaces, load_balancing_mode, round_robin_counter, interface_metrics>>
callVars == <<sel, lastRoute, rrTrace, routeCalls, lastUpdate>>
perfVars == <<stats, latency_history, throughput_history,
              stats_lock, latency_lock, throughput_lock>>
pipeVars == <<is_running, router_lock, runPc, readerPc, readerBuf, delivered,
              discarded, queue, procPc, procPkt, procDecision, procLocal, monitorPc,
              monitorStats, enqueued, processed>>
appVars == <<app_is_running, virtual_interface, vni_lock, cmdPc, cmdVni, cmdResult,
             cmdTargets, bgPc, bgVni, vniFlag, vniState, live, stalled, started,
             stopped>>
apiVars == <<clock, start_time, callerPc, callerArg, callerLocal, calls, snapshot,
             resetPc>>
ctlVars == <<vniMode, ctlPc, ctlOp, ctlArg, ctlResult>>
vars == <<routerVars, callVars, perfVars, pipeVars, appVars, apiVars, ctlVars>>

LoadBalancingModes == {"RoundRobin", "LatencyBased", "BandwidthBased", "Balanced"}
TrafficTypes == {"Gaming", "Streaming", "File", "Web", "Unknown"}

\* no call made yet
NoSel == [fn |-> "none", interfaces |-> <<>>, traffic_type |-> "Unknown", result |-> None]
NoRoute == [called |-> FALSE, pkt |-> Packet(0, "Other", "Other", 0, 0),
            counter_before |-> 0, metrics_before |-> <<>>,
            result |-> RouteResult("none", 0, Frac(0, 1), "Balanced")]
NoUpdate == [called |-> FALSE, index |-> 0, values |-> PacketMetrics(0, 0, Frac(0, 1)),
             metrics_before |-> <<>>]

\* PacketRouter::new: Balanced mode, cursor 0, no metrics
RouterInit(ifs) ==
    /\ interfaces = ifs
    /\ load_balancing_mode = "Balanced"
    /\ round_robin_counter = 0
    /\ interface_metrics = <<>>

\* RwLock: at most one writer, or any number of readers
FreeLock == [writer |-> "none", readers |-> {}]
CanWrite(lock) == lock.writer = "none" /\ lock.readers = {}
CanRead(lock) == lock.writer = "none"

\* PerformanceMonitor::new
NewStats ==
    [packets_received |-> 0, packets_forwarded |-> 0, packets_dropped |-> 0,
     bytes_received |-> 0, bytes_forwarded |-> 0, average_latency |-> 0,
     packet_loss_rate |-> Frac(0, 1), bandwidth_usage |-> 0, uptime |-> 0]

NoSnapshot == [taken |-> FALSE, at |-> 0, stats |-> NewStats]

\* a caller that has made no call yet; start_time: Instant::now() in new()
ApiInit ==
    /\ clock = 0
    /\ start_time = 0
    /\ callerPc = "idle"
    /\ callerArg = 0
    /\ callerLocal = 0
    /\ calls = <<>>
    /\ snapshot = NoSnapshot
    /\ resetPc = "idle"

\* PerformanceMonitor::new
PerfInit ==
    /\ ApiInit
    /\ stats = NewStats
    /\ latency_history = <<>>
    /\ throughput_history = <<>>
    /\ stats_lock = FreeLock
    /\ latency_lock = FreeLock
    /\ throughput_lock = FreeLock

NoPacket == [id |-> 0, data |-> Packet(0, "Other", "Other", 0, 0)]
NoDecision == RouteResult("none", 0, Frac(0, 1), "Balanced")

\* VirtualNetworkInterface::new: is_running false, nothing spawned
PipeInit ==
    /\ is_running = FALSE
    /\ router_lock = FreeLock
    /\ runPc = "start"
    /\ readerPc = "unspawned"
    /\ readerBuf = NoPacket
    /\ delivered = 0
    /\ discarded = 0
    /\ queue = <<>>
    /\ procPc = "unspawned"
    /\ procPkt = NoPacket
    /\ procDecision = NoDecision
    /\ procLocal = 0
    /\ monitorPc = "unspawned"
    /\ monitorStats = NewStats
    /\ enqueued = <<>>
    /\ processed = <<>>

\* concurrent command invocations
Cmds == {"c1", "c2"}
Adapters == 1..MaxAdapters
Loops == {"reader", "processor", "monitor"}

\* AppState::new
AppInit ==
    /\ app_is_running = FALSE
    /\ virtual_interface = None
    /\ vni_lock = FreeLock
    /\ cmdPc = [c \in Cmds |-> "idle"]
    /\ cmdVni = [c \in Cmds |-> 0]
    /\ cmdResult = [c \in Cmds |-> "none"]
    /\ cmdTargets = [c \in Cmds |-> {}]
    /\ bgPc = [a \in Adapters |-> "unspawned"]
    /\ bgVni = [a \in Adapters |-> 0]
    /\ vniFlag = [a \in Adapters |-> FALSE]
    /\ vniState = [a \in Adapters |-> "unborn"]
    /\ live = [a \in Adapters |-> {}]
    /\ stalled = [a \in Adapters |-> FALSE]
    /\ started = {}
    /\ stopped = {}
    /\ vniMode = [a \in Adapters |-> "Balanced"]
    /\ ctlPc = "idle"
    /\ ctlOp = "none"
    /\ ctlArg = ""
    /\ ctlResult = "none"

CallInit ==
    /\ sel = NoSel
    /\ lastRoute = NoRoute
    /\ rrTrace = <<>>
    /\ routeCalls = 0
    /\ lastUpdate = NoUpdate

(***************************************************************************)
(* Input domains.                                                          *)
(***************************************************************************)
\* interface slices / catalogs: the sequences of distinct indexes
Slices == {<<>>} \cup {<<i>> : i \in IfIndexes}
             \cup {<<x[1], x[2]>> : x \in {y \in IfIndexes \X IfIndexes : y[1] # y[2]}}

Latencies == {10, 50, DefaultLatencyMs, DefaultLatencyMs + 1}
Usages == {0, 5, U64_MAX}
Losses == {Frac(0, 1), Frac(1, 10), Frac(1, 1)}
MetricsValues == {PacketMetrics(l, b, p) : l \in Latencies, b \in Usages, p \in Losses}
MetricsMaps == UNION {[D -> MetricsValues] : D \in SUBSET IfIndexes}

\* packets: too short for Ethernet, not IPv4, too short for IPv4, and one
\* TCP or UDP packet of each traffic class
SamplePackets ==
    { Packet(10, "Other", "Other", 0, 0),
      Packet(60, "Other", "Other", 0, 0),
      Packet(30, "Ipv4", "Tcp", 80, 0),
      Packet(64, "Ipv4", "Tcp", 3000, 0),
      Packet(64, "Ipv4", "Udp", 5004, 0),
      Packet(64, "Ipv4", "Tcp", 22, 0),
      Packet(64, "Ipv4", "Tcp", 443, 0) }

(***************************************************************************)
(* SpecSelect: the selection policies applied to every slice and map.      *)
(***************************************************************************)
InitSelect ==
    /\ AppInit
    /\ RouterInit(DiscoveredInterfaces)
    /\ CallInit
    /\ PerfInit
    /\ PipeInit

\* the metrics map the policies are given: any map update_interface_metrics
\* can have built
DrawMetrics ==
    /\ sel = NoSel
    /\ interface_metrics = <<>>
    /\ interface_metrics' \in MetricsMaps \ {<<>>}
    /\ UNCHANGED <<interfaces, load_balancing_mode, round_robin_counter, sel,
                   lastRoute, rrTrace, routeCalls, lastUpdate, perfVars, pipeVars,
                   appVars, apiVars, ctlVars>>

Selected(fn, ifs, t, r) == [fn |-> fn, interfaces |-> ifs, traffic_type |-> t, result |-> r]

CallSelectByLatency(ifs) ==
    /\ sel = NoSel
    /\ sel' = Selected("select_by_latency", ifs, "Unknown",
                       select_by_latency(ifs, interface_metrics))
    /\ UNCHANGED <<routerVars, lastRoute, rrTrace, routeCalls, lastUpdate, perfVars,
                   pipeVars, appVars, apiVars, ctlVars>>

CallSelectByBandwidth(ifs) ==
    /\ sel = NoSel
    /\ sel' = Selected("select_by_bandwidth", ifs, "Unknown",
                       select_by_bandwidth(ifs, interface_metrics))
    /\ UNCHANGED <<routerVars, lastRoute, rrTrace, routeCalls, lastUpdate, perfVars,
                   pipeVars, appVars, apiVars, ctlVars>>

CallSelectWeightedBest(ifs) ==
    /\ sel = NoSel
    /\ sel' = Selected("select_weighted_best", ifs, "Unknown",
                       select_weighted_best(ifs, interface_metrics))
    /\ UNCHANGED <<routerVars, lastRoute, rrTrace, routeCalls, lastUpdate, perfVars,
                   pipeVars, appVars, apiVars, ctlVars>>

CallSelectBalanced(ifs, t) ==
    /\ sel = NoSel
    /\ sel' = Selected("select_balanced", ifs, t,
                       select_balanced(ifs, interface_metrics, t))
    /\ UNCHANGED <<routerVars, lastRoute, rrTrace, routeCalls, lastUpdate, perfVars,
                   pipeVars, appVars, apiVars, ctlVars>>

NextSelect ==
    \/ DrawMetrics
    \/ \E ifs \in Slices : CallSelectByLatency(ifs)
    \/ \E ifs \in Slices : CallSelectByBandwidth(ifs)
    \/ \E ifs \in Slices : CallSelectWeightedBest(ifs)
    \/ \E ifs \in Slices, t \in TrafficTypes : CallSelectBalanced(ifs, t)

SpecSelect == InitSelect /\ [][NextSelect]_vars

(***************************************************************************)
(* SpecRouter: one PacketRouter over the catalog discover_interfaces       *)
(* installs.                                                               *)
(* SpecRoute: route_packet as a function of the catalog its                *)
(* InterfaceManager holds, over every catalog of at most two interfaces,   *)
(* the empty one included.                                                 *)
(***************************************************************************)
InitRouter ==
    /\ AppInit
    /\ RouterInit(DiscoveredInterfaces)
    /\ CallInit
    /\ PerfInit
    /\ PipeInit

InitRoute ==
    /\ AppInit
    /\ \E ifs \in Slices : RouterInit(ifs)
    /\ CallInit
    /\ PerfInit
    /\ PipeInit

\* PacketRouter::route_packet
RoutePacket(pkt) ==
    LET r == route_packet(pkt, interfaces, load_balancing_mode,
                          round_robin_counter, interface_metrics)
    IN  /\ routeCalls < MaxRouteCalls
        /\ routeCalls' = routeCalls + 1
        /\ round_robin_counter' = r.counter
        /\ lastRoute' = [called |-> TRUE, pkt |-> pkt,
                         counter_before |-> round_robin_counter,
                         metrics_before |-> interface_metrics,
                         result |-> r.result]
        /\ rrTrace' = IF load_balancing_mode = "RoundRobin" /\ r.result.kind = "Ok"
                      THEN Append(rrTrace, r.result.interface_index)
                      ELSE rrTrace
        /\ UNCHANGED <<interfaces, load_balancing_mode, interface_metrics, sel,
                       lastUpdate, perfVars, pipeVars, appVars, apiVars, ctlVars>>

InsertMetricsIfAbsent(metrics, i, m) ==
    [j \in (DOMAIN metrics) \cup {i} |-> IF j \in DOMAIN metrics THEN metrics[j] ELSE m]

\* PacketRouter::update_interface_metrics: metrics.insert(interface_index, ..)
InsertMetrics(metrics, i, m) ==
    [j \in (DOMAIN metrics) \cup {i} |-> IF j = i THEN m ELSE metrics[j]]

UpdateInterfaceMetrics(i, m) ==
    /\ interface_metrics' = InsertMetrics(interface_metrics, i, m)
    /\ lastUpdate' = [called |-> TRUE, index |-> i, values |-> m,
                      metrics_before |-> interface_metrics]
    /\ lastRoute' = NoRoute
    /\ UNCHANGED <<interfaces, load_balancing_mode, round_robin_counter, sel,
                   rrTrace, routeCalls, perfVars, pipeVars, appVars, apiVars, ctlVars>>

\* PacketRouter::set_load_balancing_mode
SetLoadBalancingMode(mode) ==
    /\ load_balancing_mode' = mode
    /\ rrTrace' = <<>>
    /\ lastRoute' = NoRoute
    /\ UNCHANGED <<interfaces, round_robin_counter, interface_metrics, sel,
                   routeCalls, lastUpdate, perfVars, pipeVars, appVars, apiVars, ctlVars>>

RouterMetricsValues ==
    { PacketMetrics(20, 0, Frac(1, 10)),
      PacketMetrics(ConfidenceLatencyMs, U64_MAX, Frac(1, 10)),
      PacketMetrics(DefaultLatencyMs + 1, 0, Frac(0, 1)),
      PacketMetrics(DefaultLatencyMs + 1, U64_MAX, Frac(1, 2)) }

NextRouter ==
    \/ \E pkt \in SamplePackets : RoutePacket(pkt)
    \/ \E i \in IfIndexes, m \in RouterMetricsValues : UpdateInterfaceMetrics(i, m)
    \/ \E mode \in LoadBalancingModes : SetLoadBalancingMode(mode)

SpecRouter == InitRouter /\ [][NextRouter]_vars

SpecRoute == InitRoute /\ [][NextRouter]_vars

(***************************************************************************)
(* performance_monitor.rs: what each operation does to the statistics.     *)
(***************************************************************************)
RECURSIVE SumSeq(_)
SumSeq(s) == IF s = <<>> THEN 0 ELSE Head(s) + SumSeq(Tail(s))

\* variant: the bytes and the uptime are recorded, the packet is not counted
RecordReceivedBytesOnly(st, bytes, elapsed) ==
    [st EXCEPT !.bytes_received = @ + bytes, !.uptime = elapsed]

\* record_packet_received; elapsed is self.start_time.elapsed()
RecordReceived(st, bytes, elapsed) ==
    [st EXCEPT !.packets_received = @ + 1, !.bytes_received = @ + bytes,
               !.uptime = elapsed]

\* record_packet_forwarded, up to its call of update_bandwidth_usage
RecordForwarded(st, bytes) ==
    [st EXCEPT !.packets_forwarded = @ + 1, !.bytes_forwarded = @ + bytes]

\* variant: the failure path also counts the packet as forwarded
RecordDroppedAndForwarded(st) ==
    [st EXCEPT !.packets_dropped = @ + 1, !.packets_forwarded = @ + 1]

\* record_packet_dropped
RecordDropped(st) ==
    LET s1 == [st EXCEPT !.packets_dropped = @ + 1]
    IN  IF s1.packets_received > 0
        THEN [s1 EXCEPT !.packet_loss_rate = Frac(s1.packets_dropped, s1.packets_received)]
        ELSE s1

\* Duration::from_secs(1) of update_bandwidth_usage, in ticks of the clock
OneSecond == 1

\* ThroughputMeasurement { timestamp: Instant::now(), bytes }
ThroughputMeasurement(timestamp, bytes) == [timestamp |-> timestamp, bytes |-> bytes]

RECURSIVE RecentBytes(_, _)
\* the bytes of the entries with timestamp >= now - 1 s
RecentBytes(history, now) ==
    IF history = <<>> THEN 0
    ELSE (IF Head(history).timestamp + OneSecond >= now THEN Head(history).bytes ELSE 0)
         + RecentBytes(Tail(history), now)

\* variant: the oldest entry leaves as soon as the history is at max_history_size
PushBoundedAtCapacity(history, x) ==
    LET h == Append(history, x)
    IN  IF Len(h) >= max_history_size THEN Tail(h) ELSE h

\* push_back, then pop_front once the history is longer than max_history_size
PushBounded(history, x) ==
    LET h == Append(history, x)
    IN  IF Len(h) > max_history_size THEN Tail(h) ELSE h

\* total_latency / history.len() as u32
AverageLatency(history) == SumSeq(history) \div Len(history)

\* variant: the reset keeps the loss rate
ResetStatsKeepRate(st) == [NewStats EXCEPT !.packet_loss_rate = st.packet_loss_rate]

\* reset_stats: *stats = PerformanceStats { 0, .. }
ResetStats(st) == NewStats

\* get_current_stats: the clone of stats with uptime = start_time.elapsed()
CurrentStats(st, elapsed) == [st EXCEPT !.uptime = elapsed]

(***************************************************************************)
(* SpecMonitor: one PerformanceMonitor and one task that calls its API,    *)
(* one call after the other, as the unit tests of performance_monitor.rs   *)
(* do.  A call is made (Call), then proceeds each time the lock it waits   *)
(* for is granted.                                                         *)
(***************************************************************************)
\* API calls the task makes in one behaviour
MaxCalls == 4
\* ticks of the clock in one behaviour
MaxClock == 2

\* bytes: usize of record_packet_received / record_packet_forwarded
ByteCounts == {40, 100}
\* latency: Duration of record_processing_latency, in ms
ApiLatencies == {10, 20, 30}

InitMonitor ==
    /\ AppInit
    /\ RouterInit(DiscoveredInterfaces)
    /\ CallInit
    /\ PerfInit
    /\ PipeInit

apiUnchanged == <<routerVars, callVars, pipeVars, appVars, ctlVars, resetPc>>

\* time passes
Tick ==
    /\ clock < MaxClock
    /\ clock' = clock + 1
    /\ UNCHANGED <<apiUnchanged, perfVars, start_time, callerPc, callerArg,
                   callerLocal, calls, snapshot>>

\* the caller, between two calls, makes the next one: op is the API
\* function, arg its argument
Call(op, arg) ==
    /\ callerPc = "idle"
    /\ Len(calls) < MaxCalls
    /\ calls' = Append(calls, [op |-> op, arg |-> arg])
    /\ callerPc' = op
    /\ callerArg' = arg
    /\ UNCHANGED <<apiUnchanged, perfVars, clock, start_time, callerLocal, snapshot>>

\* caller: self.stats.write().await is granted
\*   record_packet_received   the whole function
\*   record_packet_dropped    the whole function
\*   record_packet_forwarded  the counters; the guard `stats` stays alive over
\*                            the call of update_bandwidth_usage
\*   bandwidth_stats          update_bandwidth_usage: stats.bandwidth_usage
\*   average_stats            update_average_latency: stats.average_latency
\*   reset_stats              the whole function: stats, then the guards of
\*                            latency_history and throughput_history
CallerStatsWrite ==
    /\ callerPc \in {"record_packet_received", "record_packet_dropped",
                     "record_packet_forwarded", "bandwidth_stats", "average_stats",
                     "reset_stats"}
    /\ CanWrite(stats_lock)
    /\ CASE callerPc = "record_packet_received" ->
              /\ stats' = RecordReceived(stats, callerArg, clock - start_time)
              /\ callerPc' = "idle"
              /\ UNCHANGED <<stats_lock, latency_lock, latency_history,
                             throughput_history>>
         [] callerPc = "record_packet_dropped" ->
              /\ stats' = RecordDropped(stats)
              /\ callerPc' = "idle"
              /\ UNCHANGED <<stats_lock, latency_lock, latency_history,
                             throughput_history>>
         [] callerPc = "record_packet_forwarded" ->
              /\ stats' = RecordForwarded(stats, callerArg)
              /\ stats_lock' = [stats_lock EXCEPT !.writer = "caller"]
              /\ callerPc' = "update_bandwidth"
              /\ UNCHANGED <<latency_lock, latency_history, throughput_history>>
         [] callerPc = "bandwidth_stats" ->
              /\ stats' = [stats EXCEPT !.bandwidth_usage = callerLocal]
              /\ stats_lock' = FreeLock
              /\ callerPc' = "idle"
              /\ UNCHANGED <<latency_lock, latency_history, throughput_history>>
         [] callerPc = "average_stats" ->
              /\ stats' = [stats EXCEPT !.average_latency = callerLocal]
              /\ latency_lock' = FreeLock
              /\ callerPc' = "idle"
              /\ UNCHANGED <<stats_lock, latency_history, throughput_history>>
         [] callerPc = "reset_stats" ->
              /\ CanWrite(latency_lock)
              /\ CanWrite(throughput_lock)
              /\ stats' = ResetStats(stats)
              /\ latency_history' = <<>>
              /\ throughput_history' = <<>>
              /\ callerPc' = "idle"
              /\ UNCHANGED <<stats_lock, latency_lock>>
    /\ UNCHANGED <<apiUnchanged, throughput_lock, clock, start_time, callerArg,
                   callerLocal, calls, snapshot>>

\* caller: update_bandwidth_usage: throughput_history.write().await, push, sum
\* of the recent entries, drop(throughput_history)
CallerThroughputWrite ==
    /\ callerPc = "update_bandwidth"
    /\ CanWrite(throughput_lock)
    /\ throughput_history' = PushBounded(throughput_history,
                                         ThroughputMeasurement(clock, callerArg))
    /\ callerLocal' = RecentBytes(throughput_history', clock)
    /\ callerPc' = "bandwidth_stats"
    /\ UNCHANGED <<apiUnchanged, stats, latency_history, stats_lock, latency_lock,
                   throughput_lock, clock, start_time, callerArg, calls, snapshot>>

\* caller: a lock on latency_history is granted
\*   record_processing_latency  latency_history.write().await, push; the guard
\*                              `history` stays alive
\*   update_average             update_average_latency: latency_history.read()
\*                              .await, the average, drop(history)
CallerLatencyLock ==
    /\ callerPc \in {"record_processing_latency", "update_average"}
    /\ IF callerPc = "record_processing_latency"
       THEN /\ CanWrite(latency_lock)
            /\ latency_history' = PushBounded(latency_history, callerArg)
            /\ latency_lock' = [latency_lock EXCEPT !.writer = "caller"]
            /\ callerPc' = "update_average"
            /\ UNCHANGED callerLocal
       ELSE /\ CanRead(latency_lock)
            /\ IF latency_history # <<>>
               THEN /\ callerLocal' = AverageLatency(latency_history)
                    /\ callerPc' = "average_stats"
                    /\ UNCHANGED latency_lock
               ELSE /\ latency_lock' = FreeLock
                    /\ callerPc' = "idle"
                    /\ UNCHANGED callerLocal
            /\ UNCHANGED latency_history
    /\ UNCHANGED <<apiUnchanged, stats, throughput_history, stats_lock,
                   throughput_lock, clock, start_time, callerArg, calls, snapshot>>

\* caller: get_current_stats: self.stats.read().await is granted
CallerStatsRead ==
    /\ callerPc = "get_current_stats"
    /\ CanRead(stats_lock)
    /\ snapshot' = [taken |-> TRUE, at |-> clock,
                    stats |-> CurrentStats(stats, clock - start_time)]
    /\ callerPc' = "idle"
    /\ UNCHANGED <<apiUnchanged, perfVars, clock, start_time, callerArg,
                   callerLocal, calls>>

NextMonitor ==
    \/ Tick
    \/ \E b \in ByteCounts : Call("record_packet_received", b)
    \/ \E b \in ByteCounts : Call("record_packet_forwarded", b)
    \/ Call("record_packet_dropped", 0)
    \/ \E l \in ApiLatencies : Call("record_processing_latency", l)
    \/ Call("get_current_stats", 0)
    \/ Call("reset_stats", 0)
    \/ CallerStatsWrite
    \/ CallerThroughputWrite
    \/ CallerLatencyLock
    \/ CallerStatsRead

SpecMonitor == InitMonitor /\ [][NextMonitor]_vars

(***************************************************************************)
(* Spec: one run() of a VirtualNetworkInterface.                           *)
(***************************************************************************)
\* what the TUN device may deliver
PipelinePackets ==
    { Packet(10, "Other", "Other", 0, 0),
      Packet(60, "Other", "Other", 0, 0),
      Packet(64, "Ipv4", "Tcp", 3000, 0) }

\* start_time.elapsed() of a process_packet, in ms
LatencySamples == {1, 3}

Init ==
    /\ AppInit
    /\ RouterInit(DiscoveredInterfaces)
    /\ CallInit
    /\ PerfInit
    /\ PipeInit

\* run(): sets the flag, spawns the monitor loop, the reader and the processor
RunStart ==
    /\ runPc = "start"
    /\ is_running' = TRUE
    /\ monitorPc' = "check"
    /\ readerPc' = "check"
    /\ procPc' = "check"
    /\ runPc' = "select"
    /\ UNCHANGED <<routerVars, callVars, appVars, apiVars, ctlVars, perfVars,
                   router_lock, readerBuf,
                   delivered, discarded, queue, procPkt, procDecision, procLocal,
                   monitorStats, enqueued, processed>>

\* run(): select! on the two join handles, then the flag is cleared
RunSelect ==
    /\ runPc = "select"
    /\ procPc \in {"done", "panicked"} \/ monitorPc = "done"
    /\ is_running' = FALSE
    /\ runPc' = "done"
    /\ UNCHANGED <<routerVars, callVars, appVars, apiVars, ctlVars, perfVars, router_lock, readerPc,
                   readerBuf, delivered, discarded, queue, procPc, procPkt,
                   procDecision, procLocal, monitorPc, monitorStats, enqueued,
                   processed>>

readerUnchanged == <<routerVars, callVars, appVars, apiVars, ctlVars, perfVars,
                     is_running, router_lock, runPc,
                     procPc, procPkt, procDecision, procLocal, monitorPc,
                     monitorStats, processed>>

\* reader: while *is_running.read().await
ReaderCheck ==
    /\ readerPc = "check"
    /\ readerPc' = IF is_running THEN "recv" ELSE "done"
    /\ UNCHANGED <<readerUnchanged, readerBuf, delivered, discarded, queue, enqueued>>

\* reader: device.recv(&mut buf).await returns Ok(len)
ReaderRecv(data) ==
    /\ readerPc = "recv"
    /\ delivered < MaxPackets
    /\ delivered' = delivered + 1
    /\ readerBuf' = [id |-> delivered + 1, data |-> data]
    /\ readerPc' = "send"
    /\ UNCHANGED <<readerUnchanged, discarded, queue, enqueued>>

\* reader: device.recv returns Err, the loop breaks and packet_tx is dropped
ReaderRecvError ==
    /\ readerPc = "recv"
    /\ readerPc' = "done"
    /\ UNCHANGED <<readerUnchanged, readerBuf, delivered, discarded, queue, enqueued>>

\* Sender::send: Err once the receiver is gone, else waits for a free slot
ChannelSend(q, x) == Append(q, x)
\* variant: an unbounded channel
CanSendUnbounded(q) == TRUE
CanSend(q) == Len(q) < QueueCapacity
ReceiverDropped == procPc \in {"done", "panicked"}

\* reader: packet_tx.send(buf[..len].to_vec()).await
ReaderSend ==
    /\ readerPc = "send"
    /\ IF ReceiverDropped
       THEN /\ discarded' = discarded + 1
            /\ readerPc' = "done"
            /\ UNCHANGED <<queue, enqueued>>
       ELSE /\ CanSend(queue)
            /\ queue' = ChannelSend(queue, readerBuf)
            /\ enqueued' = Append(enqueued, readerBuf.id)
            /\ readerPc' = "check"
            /\ UNCHANGED discarded
    /\ readerBuf' = NoPacket
    /\ UNCHANGED <<readerUnchanged, delivered>>

procUnchanged == <<interfaces, load_balancing_mode, interface_metrics, callVars,
                   appVars, apiVars, ctlVars,
                   is_running, runPc, readerPc, readerBuf, delivered, discarded,
                   monitorPc, monitorStats, enqueued>>

\* processor: while *is_running.read().await
ProcCheck ==
    /\ procPc = "check"
    /\ procPc' = IF is_running THEN "recv" ELSE "done"
    /\ UNCHANGED <<procUnchanged, round_robin_counter, perfVars, router_lock, queue,
                   procPkt, procDecision, procLocal, processed>>

\* variant: the newest queued packet
ChannelRecvNewest(q) == q[Len(q)]
\* Receiver::recv: the oldest queued packet
ChannelRecv(q) == Head(q)
ChannelRest(q) == Tail(q)
SenderDropped == readerPc = "done"

\* processor: select! { Some(packet_data) = packet_rx.recv() => .., else => break }
ProcRecv ==
    /\ procPc = "recv"
    /\ IF queue # <<>>
       THEN /\ procPkt' = ChannelRecv(queue)
            /\ queue' = ChannelRest(queue)
            /\ processed' = Append(processed,
                   [id |-> ChannelRecv(queue).id, len |-> ChannelRecv(queue).data.len,
                    route |-> "pending", send |-> "pending"])
            /\ procPc' = "record_received"
       ELSE /\ SenderDropped
            /\ procPc' = "done"
            /\ UNCHANGED <<procPkt, queue, processed>>
    /\ UNCHANGED <<procUnchanged, round_robin_counter, perfVars, router_lock,
                   procDecision, procLocal>>

SetLast(log, field, value) == [log EXCEPT ![Len(log)][field] = value]

\* process_packet: packet_router.read().await.route_packet(&packet_data).await;
\* the read guard lives to the end of the match
ProcRoute ==
    LET r == route_packet(procPkt.data, interfaces, load_balancing_mode,
                          round_robin_counter, interface_metrics)
    IN  /\ procPc = "route"
        /\ CanRead(router_lock)
        /\ round_robin_counter' = r.counter
        /\ procDecision' = r.result
        /\ processed' = SetLast(processed, "route",
                                IF r.result.kind = "Ok" THEN "ok" ELSE "failed")
        /\ IF r.result.kind = "Panic"
           THEN procPc' = "panicked" /\ UNCHANGED router_lock
           ELSE /\ router_lock' = [router_lock EXCEPT !.readers = @ \cup {"processor"}]
                /\ procPc' = IF r.result.kind = "Ok" THEN "send" ELSE "record_dropped"
        /\ UNCHANGED <<procUnchanged, perfVars, queue, procPkt, procLocal>>

\* process_packet: send_packet_to_interface(..).await succeeds or fails
ProcSend(ok) ==
    /\ procPc = "send"
    /\ processed' = SetLast(processed, "send", IF ok THEN "ok" ELSE "failed")
    /\ procPc' = IF ok THEN "record_forwarded" ELSE "record_dropped"
    /\ UNCHANGED <<procUnchanged, round_robin_counter, perfVars, router_lock, queue,
                   procPkt, procDecision, procLocal>>

ReleaseRead(lock, task) == [lock EXCEPT !.readers = @ \ {task}]

\* processor: a self.stats.write().await of the PerformanceMonitor is granted
\*   record_received   record_packet_received, the whole of it
\*   record_dropped    record_packet_dropped, the whole of it; the match ends
\*   record_forwarded  record_packet_forwarded up to update_bandwidth_usage,
\*                     the guard `stats` stays alive
\*   bandwidth_stats   the end of update_bandwidth_usage, then both return
\*   average_stats     the end of update_average_latency, then both return
ProcStatsWrite ==
    /\ procPc \in {"record_received", "record_dropped", "record_forwarded",
                   "bandwidth_stats", "average_stats"}
    /\ CanWrite(stats_lock)
    /\ CASE procPc = "record_received" ->
              /\ stats' = RecordReceived(stats, procPkt.data.len, clock - start_time)
              /\ procPc' = "route"
              /\ UNCHANGED <<stats_lock, latency_lock, router_lock>>
         [] procPc = "record_dropped" ->
              /\ stats' = RecordDropped(stats)
              /\ router_lock' = ReleaseRead(router_lock, "processor")
              /\ procPc' = "record_latency"
              /\ UNCHANGED <<stats_lock, latency_lock>>
         [] procPc = "record_forwarded" ->
              /\ stats' = RecordForwarded(stats, procPkt.data.len)
              /\ stats_lock' = [stats_lock EXCEPT !.writer = "processor"]
              /\ procPc' = "update_bandwidth"
              /\ UNCHANGED <<latency_lock, router_lock>>
         [] procPc = "bandwidth_stats" ->
              /\ stats' = [stats EXCEPT !.bandwidth_usage = procLocal]
              /\ router_lock' = ReleaseRead(router_lock, "processor")
              /\ procPc' = "record_latency"
              /\ UNCHANGED <<stats_lock, latency_lock>>
         [] procPc = "average_stats" ->
              /\ stats' = [stats EXCEPT !.average_latency = procLocal]
              /\ latency_lock' = FreeLock
              /\ procPc' = "check"
              /\ UNCHANGED <<stats_lock, router_lock>>
    /\ UNCHANGED <<procUnchanged, round_robin_counter, latency_history,
                   throughput_history, throughput_lock, queue, procPkt,
                   procDecision, procLocal, processed>>

\* update_bandwidth_usage: throughput_history.write().await, push, sum of the
\* recent entries, drop(throughput_history)
ProcThroughputWrite ==
    /\ procPc = "update_bandwidth"
    /\ CanWrite(throughput_lock)
    /\ throughput_history' = PushBounded(throughput_history,
                                         ThroughputMeasurement(clock, procPkt.data.len))
    /\ procLocal' = RecentBytes(throughput_history', clock)
    /\ procPc' = "bandwidth_stats"
    /\ UNCHANGED <<procUnchanged, round_robin_counter, stats, latency_history,
                   stats_lock, latency_lock, throughput_lock, router_lock, queue,
                   procPkt, procDecision, processed>>

\* processor: a lock on latency_history is granted
\*   record_latency   record_processing_latency: latency_history.write().await,
\*                    push; the guard `history` stays alive
\*   update_average   update_average_latency: latency_history.read().await,
\*                    the average, drop(history)
ProcLatencyLock(sample) ==
    /\ procPc \in {"record_latency", "update_average"}
    /\ IF procPc = "record_latency"
       THEN /\ CanWrite(latency_lock)
            /\ latency_history' = PushBounded(latency_history, sample)
            /\ latency_lock' = [latency_lock EXCEPT !.writer = "processor"]
            /\ procPc' = "update_average"
            /\ UNCHANGED procLocal
       ELSE /\ CanRead(latency_lock)
            /\ IF latency_history # <<>>
               THEN /\ procLocal' = AverageLatency(latency_history)
                    /\ procPc' = "average_stats"
                    /\ UNCHANGED latency_lock
               ELSE /\ latency_lock' = FreeLock
                    /\ procPc' = "check"
                    /\ UNCHANGED procLocal
            /\ UNCHANGED latency_history
    /\ UNCHANGED <<procUnchanged, round_robin_counter, stats, throughput_history,
                   stats_lock, throughput_lock, router_lock, queue, procPkt,
                   procDecision, processed>>

monUnchanged == <<interfaces, load_balancing_mode, round_robin_counter, sel, lastRoute,
                  rrTrace, routeCalls, appVars, apiVars, ctlVars,
                  perfVars, is_running, runPc, readerPc, readerBuf, delivered,
                  discarded, queue, procPc, procPkt, procDecision, procLocal,
                  enqueued, processed>>

\* variant: a loop that never looks at the flag again
MonitorCheckForever ==
    /\ monitorPc = "check"
    /\ monitorPc' = "tick"
    /\ UNCHANGED <<monUnchanged, interface_metrics, lastUpdate, router_lock, monitorStats>>

\* monitor loop: while *is_running.read().await
MonitorCheck ==
    /\ monitorPc = "check"
    /\ monitorPc' = IF is_running THEN "tick" ELSE "done"
    /\ UNCHANGED <<monUnchanged, interface_metrics, lastUpdate, router_lock, monitorStats>>

\* monitor loop: interval.tick().await
MonitorTick ==
    /\ monitorPc = "tick"
    /\ monitorPc' = "stats"
    /\ UNCHANGED <<monUnchanged, interface_metrics, lastUpdate, router_lock, monitorStats>>

\* monitor loop: performance_monitor.get_current_stats().await
MonitorStats ==
    /\ monitorPc = "stats"
    /\ CanRead(stats_lock)
    /\ monitorStats' = stats
    /\ monitorPc' = "update"
    /\ UNCHANGED <<monUnchanged, interface_metrics, lastUpdate, router_lock>>

\* monitor loop: packet_router.write().await.update_interface_metrics(1, 20 ms,
\* stats.bandwidth_usage, stats.packet_loss_rate).await
MonitorUpdate ==
    /\ monitorPc = "update"
    /\ CanWrite(router_lock)
    /\ interface_metrics' =
           InsertMetrics(interface_metrics, MonitoredInterface,
                         PacketMetrics(SimulatedLatencyMs, monitorStats.bandwidth_usage,
                                       monitorStats.packet_loss_rate))
    /\ lastUpdate' =
           [called |-> TRUE, index |-> MonitoredInterface,
            values |-> PacketMetrics(SimulatedLatencyMs, monitorStats.bandwidth_usage,
                                     monitorStats.packet_loss_rate),
            metrics_before |-> interface_metrics]
    /\ monitorPc' = "check"
    /\ UNCHANGED <<monUnchanged, router_lock, monitorStats>>

Next ==
    \/ RunStart
    \/ RunSelect
    \/ ReaderCheck
    \/ \E data \in PipelinePackets : ReaderRecv(data)
    \/ ReaderRecvError
    \/ ReaderSend
    \/ ProcCheck
    \/ ProcRecv
    \/ ProcRoute
    \/ \E ok \in BOOLEAN : ProcSend(ok)
    \/ ProcStatsWrite
    \/ ProcThroughputWrite
    \/ \E sample \in LatencySamples : ProcLatencyLock(sample)
    \/ MonitorCheck
    \/ MonitorTick
    \/ MonitorStats
    \/ MonitorUpdate

Spec == Init /\ [][Next]_vars

(***************************************************************************)
(* SpecApp: start_netboost, stop_netboost and the background task of each  *)
(* start.  An adapter's pipeline is followed by which of its loops are     *)
(* live; Spec follows one pipeline step by step.                           *)
(***************************************************************************)
InitApp ==
    /\ AppInit
    /\ RouterInit(DiscoveredInterfaces)
    /\ CallInit
    /\ PerfInit
    /\ PipeInit

restVars == <<routerVars, callVars, perfVars, pipeVars, apiVars, ctlVars>>

Unborn == {a \in Adapters : vniState[a] = "unborn"}

\* what replacing or clearing the Option drops
DropSlot(st, slot) == IF slot = None THEN st ELSE [st EXCEPT ![slot[1]] = "dropped"]

\* variant: start_netboost without its is_running check
StartNetboostCheckUnguarded(c) ==
    /\ cmdPc[c] = "idle"
    /\ Unborn # {}
    /\ cmdPc' = [cmdPc EXCEPT ![c] = "start_new"]
    /\ cmdResult' = [cmdResult EXCEPT ![c] = "pending"]
    /\ UNCHANGED <<restVars, app_is_running, virtual_interface, vni_lock, cmdVni,
                   cmdTargets, bgPc, bgVni, vniFlag, vniState, live, stalled,
                   started, stopped>>

\* start_netboost: let is_running = *state.is_running.read().await;
\* if is_running { return Err(..) }
StartNetboostCheck(c) ==
    /\ cmdPc[c] = "idle"
    /\ IF app_is_running
       THEN /\ cmdResult' = [cmdResult EXCEPT ![c] = "ErrAlreadyRunning"]
            /\ UNCHANGED cmdPc
       ELSE /\ Unborn # {}
            /\ cmdPc' = [cmdPc EXCEPT ![c] = "start_new"]
            /\ cmdResult' = [cmdResult EXCEPT ![c] = "pending"]
    /\ UNCHANGED <<restVars, app_is_running, virtual_interface, vni_lock, cmdVni, cmdTargets,
                   bgPc, bgVni, vniFlag, vniState, live, stalled, started, stopped>>

\* start_netboost: VirtualNetworkInterface::new().await is Ok(vni) or Err(e)
StartNetboostNew(c, ok) ==
    /\ cmdPc[c] = "start_new"
    /\ IF ok
       THEN /\ Unborn # {}
            /\ LET a == CHOOSE x \in Unborn : \A y \in Unborn : x <= y
               IN  /\ vniState' = [vniState EXCEPT ![a] = "created"]
                   /\ cmdVni' = [cmdVni EXCEPT ![c] = a]
            /\ cmdPc' = [cmdPc EXCEPT ![c] = "start_store"]
            /\ UNCHANGED cmdResult
       ELSE /\ cmdResult' = [cmdResult EXCEPT ![c] = "ErrStartFailed"]
            /\ cmdPc' = [cmdPc EXCEPT ![c] = "idle"]
            /\ UNCHANGED <<vniState, cmdVni>>
    /\ UNCHANGED <<restVars, app_is_running, virtual_interface, vni_lock, cmdTargets, bgPc,
                   bgVni, vniFlag, live, stalled, started, stopped>>

\* start_netboost: *state.virtual_interface.write().await = Some(vni)
StartNetboostStore(c) ==
    /\ cmdPc[c] = "start_store"
    /\ CanWrite(vni_lock)
    /\ virtual_interface' = Some(cmdVni[c])
    /\ vniState' = DropSlot(vniState, virtual_interface)
    /\ cmdPc' = [cmdPc EXCEPT ![c] = "start_set_running"]
    /\ UNCHANGED <<restVars, app_is_running, vni_lock, cmdVni, cmdResult, cmdTargets, bgPc,
                   bgVni, vniFlag, live, stalled, started, stopped>>

\* start_netboost: *state.is_running.write().await = true, the background task
\* is spawned, Ok("NetBoost Pro started successfully")
StartNetboostSetRunning(c) ==
    /\ cmdPc[c] = "start_set_running"
    /\ app_is_running' = TRUE
    /\ bgPc' = [bgPc EXCEPT ![cmdVni[c]] = "take"]
    /\ started' = started \cup {cmdVni[c]}
    /\ cmdResult' = [cmdResult EXCEPT ![c] = "OkStarted"]
    /\ cmdVni' = [cmdVni EXCEPT ![c] = 0]
    /\ cmdPc' = [cmdPc EXCEPT ![c] = "idle"]
    /\ UNCHANGED <<restVars, virtual_interface, vni_lock, cmdTargets, bgVni, vniFlag,
                   vniState, live, stalled, stopped>>

\* variant: the guard is dropped before run() is awaited
TakeGuardDropped(lock) == lock

\* the write guard of vni_state.write().await is a temporary of the if-let
\* scrutinee: it lives until the if-let ends, across vni.run().await
TakeGuard(lock) == [lock EXCEPT !.writer = "background"]

\* background task: if let Some(vni) = vni_state.write().await.take() { vni.run() ..
\* run() sets the adapter's flag and spawns its three loops
BgTake(b) ==
    /\ bgPc[b] = "take"
    /\ CanWrite(vni_lock)
    /\ virtual_interface' = None
    /\ IF virtual_interface # None
       THEN LET a == virtual_interface[1]
            IN  /\ vni_lock' = TakeGuard(vni_lock)
                /\ bgVni' = [bgVni EXCEPT ![b] = a]
                /\ vniFlag' = [vniFlag EXCEPT ![a] = TRUE]
                /\ vniState' = [vniState EXCEPT ![a] = "running"]
                /\ live' = [live EXCEPT ![a] = Loops]
                /\ bgPc' = [bgPc EXCEPT ![b] = "run"]
       ELSE /\ bgPc' = [bgPc EXCEPT ![b] = "set_stopped"]
            /\ UNCHANGED <<vni_lock, bgVni, vniFlag, vniState, live>>
    /\ UNCHANGED <<restVars, app_is_running, cmdPc, cmdVni, cmdResult, cmdTargets, stalled,
                   started, stopped>>

\* background task, in run(): one of the two join handles completes, the flag
\* is cleared, run() returns and the if-let ends
BgRunSelect(b) ==
    /\ bgPc[b] = "run"
    /\ LET a == bgVni[b]
       IN  /\ "processor" \notin live[a] \/ "monitor" \notin live[a]
           /\ vniFlag' = [vniFlag EXCEPT ![a] = FALSE]
           /\ vniState' = [vniState EXCEPT ![a] = "finished"]
    /\ vni_lock' = FreeLock
    /\ bgVni' = [bgVni EXCEPT ![b] = 0]
    /\ bgPc' = [bgPc EXCEPT ![b] = "set_stopped"]
    /\ UNCHANGED <<restVars, app_is_running, virtual_interface, cmdPc, cmdVni, cmdResult,
                   cmdTargets, live, stalled, started, stopped>>

\* background task: *running_state.write().await = false
BgSetStopped(b) ==
    /\ bgPc[b] = "set_stopped"
    /\ app_is_running' = FALSE
    /\ bgPc' = [bgPc EXCEPT ![b] = "done"]
    /\ UNCHANGED <<restVars, virtual_interface, vni_lock, cmdPc, cmdVni, cmdResult, cmdTargets,
                   bgVni, vniFlag, vniState, live, stalled, started, stopped>>

pipelineUnchanged == <<restVars, app_is_running, virtual_interface, vni_lock, cmdPc, cmdVni,
                       cmdResult, cmdTargets, bgPc, bgVni, vniFlag, vniState,
                       started, stopped>>

\* the processor took a packet: process_packet never returns, it waits in
\* record_packet_forwarded or record_processing_latency for a lock it holds
ProcessorStalls(a) ==
    /\ "processor" \in live[a]
    /\ ~stalled[a]
    /\ stalled' = [stalled EXCEPT ![a] = TRUE]
    /\ UNCHANGED <<pipelineUnchanged, live>>

\* the reader loop ends: device.recv fails, or the flag is found cleared
ReaderEnds(a) ==
    /\ "reader" \in live[a]
    /\ live' = [live EXCEPT ![a] = @ \ {"reader"}]
    /\ UNCHANGED <<pipelineUnchanged, stalled>>

\* the processor loop ends: the channel is closed, or the flag is found cleared
ProcessorEnds(a) ==
    /\ "processor" \in live[a]
    /\ ~stalled[a]
    /\ "reader" \notin live[a] \/ ~vniFlag[a]
    /\ live' = [live EXCEPT ![a] = @ \ {"processor"}]
    /\ UNCHANGED <<pipelineUnchanged, stalled>>

\* the monitor loop ends: the flag is found cleared
MonitorEnds(a) ==
    /\ "monitor" \in live[a]
    /\ ~vniFlag[a]
    /\ live' = [live EXCEPT ![a] = @ \ {"monitor"}]
    /\ UNCHANGED <<pipelineUnchanged, stalled>>

\* stop_netboost: let is_running = *state.is_running.read().await;
\* if !is_running { return Err(..) }
StopNetboostCheck(c) ==
    /\ cmdPc[c] = "idle"
    /\ IF ~app_is_running
       THEN /\ cmdResult' = [cmdResult EXCEPT ![c] = "ErrNotRunning"]
            /\ UNCHANGED <<cmdPc, cmdTargets>>
       ELSE /\ cmdPc' = [cmdPc EXCEPT ![c] = "stop_read"]
            /\ cmdResult' = [cmdResult EXCEPT ![c] = "pending"]
            /\ cmdTargets' = [cmdTargets EXCEPT ![c] = started]
    /\ UNCHANGED <<restVars, app_is_running, virtual_interface, vni_lock, cmdVni, bgPc, bgVni,
                   vniFlag, vniState, live, stalled, started, stopped>>

\* VirtualNetworkInterface::stop: *self.is_running.write().await = false
VniStop(flags, slot) == IF slot = None THEN flags ELSE [flags EXCEPT ![slot[1]] = FALSE]

\* stop_netboost: if let Some(vni) = state.virtual_interface.read().await.as_ref()
\* { vni.stop().await }
StopNetboostRead(c) ==
    /\ cmdPc[c] = "stop_read"
    /\ CanRead(vni_lock)
    /\ vniFlag' = VniStop(vniFlag, virtual_interface)
    /\ cmdPc' = [cmdPc EXCEPT ![c] = "stop_set_running"]
    /\ UNCHANGED <<restVars, app_is_running, virtual_interface, vni_lock, cmdVni, cmdResult,
                   cmdTargets, bgPc, bgVni, vniState, live, stalled, started, stopped>>

\* stop_netboost: *state.is_running.write().await = false
StopNetboostSetRunning(c) ==
    /\ cmdPc[c] = "stop_set_running"
    /\ app_is_running' = FALSE
    /\ cmdPc' = [cmdPc EXCEPT ![c] = "stop_clear"]
    /\ UNCHANGED <<restVars, virtual_interface, vni_lock, cmdVni, cmdResult, cmdTargets, bgPc,
                   bgVni, vniFlag, vniState, live, stalled, started, stopped>>

\* stop_netboost: *state.virtual_interface.write().await = None,
\* Ok("NetBoost Pro stopped successfully")
StopNetboostClear(c) ==
    /\ cmdPc[c] = "stop_clear"
    /\ CanWrite(vni_lock)
    /\ virtual_interface' = None
    /\ vniState' = DropSlot(vniState, virtual_interface)
    /\ stopped' = stopped \cup cmdTargets[c]
    /\ cmdTargets' = [cmdTargets EXCEPT ![c] = {}]
    /\ cmdResult' = [cmdResult EXCEPT ![c] = "OkStopped"]
    /\ cmdPc' = [cmdPc EXCEPT ![c] = "idle"]
    /\ UNCHANGED <<restVars, app_is_running, vni_lock, cmdVni, bgPc, bgVni,
                   vniFlag, live, stalled, started>>

NextApp ==
    \/ \E c \in Cmds : StartNetboostCheck(c)
    \/ \E c \in Cmds, ok \in BOOLEAN : StartNetboostNew(c, ok)
    \/ \E c \in Cmds : StartNetboostStore(c)
    \/ \E c \in Cmds : StartNetboostSetRunning(c)
    \/ \E b \in Adapters : BgTake(b)
    \/ \E b \in Adapters : BgRunSelect(b)
    \/ \E b \in Adapters : BgSetStopped(b)
    \/ \E a \in Adapters : ProcessorStalls(a)
    \/ \E a \in Adapters : ReaderEnds(a)
    \/ \E a \in Adapters : ProcessorEnds(a)
    \/ \E a \in Adapters : MonitorEnds(a)
    \/ \E c \in Cmds : StopNetboostCheck(c)
    \/ \E c \in Cmds : StopNetboostRead(c)
    \/ \E c \in Cmds : StopNetboostSetRunning(c)
    \/ \E c \in Cmds : StopNetboostClear(c)

SpecApp == InitApp /\ [][NextApp]_vars

(***************************************************************************)
(* SpecControl: the commands get_performance_stats and                     *)
(* set_load_balancing_mode, issued by one client while another client      *)
(* starts and stops the service.                                           *)
(***************************************************************************)
\* mode: String as a client may send it
ModeStrings == {"latency_based", "balanced", "fastest"}

\* variant: an unknown string selects Balanced
ParseModeLenient(mode) ==
    CASE mode = "round_robin" -> Some("RoundRobin")
      [] mode = "latency_based" -> Some("LatencyBased")
      [] mode = "bandwidth_based" -> Some("BandwidthBased")
      [] OTHER -> Some("Balanced")

\* set_load_balancing_mode: match mode.as_str() { .. }; None is the arm that
\* returns Err("Invalid load balancing mode")
ParseMode(mode) ==
    CASE mode = "round_robin" -> Some("RoundRobin")
      [] mode = "latency_based" -> Some("LatencyBased")
      [] mode = "bandwidth_based" -> Some("BandwidthBased")
      [] mode = "balanced" -> Some("Balanced")
      [] OTHER -> None

\* the client that starts and stops the service
Lifecycle == {"c1"}

InitControl ==
    /\ AppInit
    /\ RouterInit(DiscoveredInterfaces)
    /\ CallInit
    /\ PerfInit
    /\ PipeInit

ctlUnchanged == <<routerVars, callVars, perfVars, pipeVars, apiVars, appVars>>

\* get_performance_stats: let is_running = *state.is_running.read().await;
\* if !is_running { return Err(..) }
GetPerformanceStatsCheck ==
    /\ ctlPc = "idle"
    /\ ctlOp' = "get_performance_stats"
    /\ ctlArg' = ""
    /\ IF ~app_is_running
       THEN /\ ctlResult' = "ErrNotRunning"
            /\ UNCHANGED ctlPc
       ELSE /\ ctlResult' = "pending"
            /\ ctlPc' = "stats_read"
    /\ UNCHANGED <<ctlUnchanged, vniMode>>

\* get_performance_stats: if let Some(vni) = state.virtual_interface.read()
\* .await.as_ref() { Ok(vni.get_performance_stats().await) } else { Err(..) }
GetPerformanceStatsRead ==
    /\ ctlPc = "stats_read"
    /\ CanRead(vni_lock)
    /\ ctlResult' = IF virtual_interface # None THEN "OkStats" ELSE "ErrUnavailable"
    /\ ctlPc' = "idle"
    /\ UNCHANGED <<ctlUnchanged, vniMode, ctlOp, ctlArg>>

\* set_load_balancing_mode: the is_running check, then the match on the
\* mode string
SetLoadBalancingModeCheck(mode) ==
    /\ ctlPc = "idle"
    /\ ctlOp' = "set_load_balancing_mode"
    /\ IF ~app_is_running
       THEN /\ ctlResult' = "ErrNotRunning"
            /\ UNCHANGED <<ctlPc, ctlArg>>
       ELSE IF ParseMode(mode) = None
       THEN /\ ctlResult' = "ErrInvalidMode"
            /\ UNCHANGED <<ctlPc, ctlArg>>
       ELSE /\ ctlResult' = "pending"
            /\ ctlArg' = mode
            /\ ctlPc' = "mode_write"
    /\ UNCHANGED <<ctlUnchanged, vniMode>>

\* set_load_balancing_mode: if let Some(vni) = state.virtual_interface.write()
\* .await.as_mut() { vni.set_load_balancing_mode(balancing_mode).await; Ok(..) }
\* else { Err(..) }
SetLoadBalancingModeWrite ==
    /\ ctlPc = "mode_write"
    /\ CanWrite(vni_lock)
    /\ IF virtual_interface # None
       THEN /\ vniMode' = [vniMode EXCEPT ![virtual_interface[1]] = ParseMode(ctlArg)[1]]
            /\ ctlResult' = "OkModeSet"
       ELSE /\ ctlResult' = "ErrUnavailable"
            /\ UNCHANGED vniMode
    /\ ctlArg' = ""
    /\ ctlPc' = "idle"
    /\ UNCHANGED <<ctlUnchanged, ctlOp>>

NextControl ==
    \/ \E c \in Lifecycle : StartNetboostCheck(c)
    \/ \E c \in Lifecycle, ok \in BOOLEAN : StartNetboostNew(c, ok)
    \/ \E c \in Lifecycle : StartNetboostStore(c)
    \/ \E c \in Lifecycle : StartNetboostSetRunning(c)
    \/ \E b \in Adapters : BgTake(b)
    \/ \E b \in Adapters : BgRunSelect(b)
    \/ \E b \in Adapters : BgSetStopped(b)
    \/ \E a \in Adapters : ProcessorStalls(a)
    \/ \E a \in Adapters : ReaderEnds(a)
    \/ \E a \in Adapters : ProcessorEnds(a)
    \/ \E a \in Adapters : MonitorEnds(a)
    \/ \E c \in Lifecycle : StopNetboostCheck(c)
    \/ \E c \in Lifecycle : StopNetboostRead(c)
    \/ \E c \in Lifecycle : StopNetboostSetRunning(c)
    \/ \E c \in Lifecycle : StopNetboostClear(c)
    \/ GetPerformanceStatsCheck
    \/ GetPerformanceStatsRead
    \/ \E mode \in ModeStrings : SetLoadBalancingModeCheck(mode)
    \/ SetLoadBalancingModeWrite

SpecControl == InitControl /\ [][NextControl]_vars

(***************************************************************************)
(* Properties.                                                             *)
(***************************************************************************)
\* positions of the processor at which the outcome of the packet it holds
\* has been recorded
OutcomeRecorded == {"update_bandwidth", "bandwidth_stats", "record_latency",
                    "update_average", "average_stats", "check", "recv", "done"}

\* C1: for every packet the processor took off the queue exactly one outcome is
\* recorded: packets_dropped grew by one when routing or the physical send
\* failed, otherwise packets_forwarded grew by one and bytes_forwarded by the
\* packet's length; never both, never neither.
C1_ExactlyOneOutcome ==
    LET decided == {k \in 1..Len(processed) :
                        k < Len(processed) \/ procPc \in OutcomeRecorded}
        fwd == {k \in decided : processed[k].route = "ok" /\ processed[k].send = "ok"}
        drp == {k \in decided : processed[k].route = "failed" \/ processed[k].send = "failed"}
    IN  /\ stats.packets_forwarded = Cardinality(fwd)
        /\ stats.packets_dropped = Cardinality(drp)
        /\ stats.bytes_forwarded =
               SumSeq([k \in 1..Len(processed) |->
                           IF k \in fwd THEN processed[k].len ELSE 0])
        /\ stats.packets_forwarded + stats.packets_dropped = Cardinality(decided)

\* a routed and sent packet of 64 bytes has been recorded as forwarded
C1_ForwardedRecorded ==
    /\ procPc \in OutcomeRecorded
    /\ Len(processed) = 1
    /\ processed[1].send = "ok"
    /\ stats.packets_forwarded = 1
    /\ stats.bytes_forwarded = 64

\* C2: start_netboost is rejected exactly when AppState.is_running is set and
\* stop_netboost exactly when it is not, and a rejected call changes neither
\* is_running, virtual_interface, nor any adapter, loop or background task.
C2_RejectedCallChangesNothing ==
    [][\A c \in Cmds :
          /\ (cmdPc[c] = "idle" /\ cmdResult'[c] # cmdResult[c]
                /\ cmdResult'[c] \in {"ErrAlreadyRunning", "ErrNotRunning"})
             => /\ UNCHANGED <<app_is_running, virtual_interface, vni_lock, bgPc,
                               bgVni, vniFlag, vniState, live, stalled>>
                /\ cmdPc'[c] = "idle"
                /\ (cmdResult'[c] = "ErrAlreadyRunning") = app_is_running
          /\ (cmdPc[c] = "idle" /\ cmdPc'[c] = "start_new") => ~app_is_running
          /\ (cmdPc[c] = "idle" /\ cmdPc'[c] = "stop_read") => app_is_running
      ]_vars

\* a start was rejected and a stop was rejected, with a pipeline in existence
C2_BothRejected ==
    /\ \E c \in Cmds : cmdResult[c] = "ErrAlreadyRunning"
    /\ \E c \in Cmds : cmdResult[c] = "ErrNotRunning"
    /\ \E a \in Adapters : vniState[a] \in {"running", "finished"}

\* C3: once stop_netboost has returned success for an adapter that
\* start_netboost started, that adapter's is_running flag is cleared: no loop
\* of it runs with the flag still set.
C3_StoppedAdapterFlagCleared ==
    \A a \in stopped : ~vniFlag[a] /\ ~(vniFlag[a] /\ live[a] # {})

\* stop_netboost returned success for an adapter whose pipeline has run
C3_StoppedAfterRun ==
    \E a \in stopped : vniState[a] = "finished" /\ \E c \in Cmds : cmdResult[c] = "OkStopped"

\* C4: the processor takes packets in exactly the order the reader enqueued
\* them: what it has taken is a prefix of what was enqueued.
C4_ProcessedInEnqueueOrder ==
    /\ Len(processed) <= Len(enqueued)
    /\ \A k \in 1..Len(processed) : processed[k].id = enqueued[k]

\* the processor took a packet of a run in which several were enqueued
C4_TakenAmongSeveral == Len(processed) >= 1 /\ Len(enqueued) >= 2

\* C5: the queue never holds more than its capacity; the reader discards no
\* packet it read, and has enqueued every packet it read except the one whose
\* send it is waiting in.
C5_BoundedQueueNoLoss ==
    /\ Len(queue) <= QueueCapacity
    /\ discarded = 0
    /\ delivered = Len(enqueued) + (IF readerPc = "send" THEN 1 ELSE 0)
    /\ readerPc = "send" => readerBuf.id = delivered

\* the queue is full and the reader waits in send with the next packet
C5_ReaderSuspended == Len(queue) = QueueCapacity /\ readerPc = "send"

\* position of interface i in the catalog
CatalogPos(i) == CHOOSE p \in 1..Len(interfaces) : interfaces[p] = i

\* C6: under RoundRobin consecutive route_packet calls walk the catalog in
\* order, each of N consecutive calls selecting the next interface and the
\* (N+1)-th the first again.
C6_RoundRobinWalksCatalog ==
    \A k \in 1..(Len(rrTrace) - 1) :
        CatalogPos(rrTrace[k + 1]) = (CatalogPos(rrTrace[k]) % Len(interfaces)) + 1

\* the latency a policy compares: the recorded one, 9999 ms without an entry
EffectiveLatency(i) ==
    IF i \in DOMAIN interface_metrics THEN interface_metrics[i].latency ELSE 9999

EffectiveUsage(i) ==
    IF i \in DOMAIN interface_metrics THEN interface_metrics[i].bandwidth_usage
    ELSE U64_MAX

\* C8: select_by_bandwidth returns an interface of lowest usage where an
\* interface without an entry counts as u64::MAX: one without an entry is
\* returned only when no interface has a recorded usage strictly below that.
C8_LowestUsage ==
    sel.fn = "select_by_bandwidth" =>
        IF sel.interfaces = <<>> THEN sel.result = None
        ELSE /\ sel.result # None
             /\ \E p \in 1..Len(sel.interfaces) : sel.interfaces[p] = sel.result[1]
             /\ \A k \in 1..Len(sel.interfaces) :
                   EffectiveUsage(sel.result[1]) <= EffectiveUsage(sel.interfaces[k])
             /\ sel.result[1] \notin DOMAIN interface_metrics =>
                   \A k \in 1..Len(sel.interfaces) :
                       sel.interfaces[k] \in DOMAIN interface_metrics =>
                           interface_metrics[sel.interfaces[k]].bandwidth_usage = U64_MAX

\* an interface with a recorded usage won over an earlier one without an entry
C8_MeasuredWon ==
    /\ sel.fn = "select_by_bandwidth"
    /\ Len(sel.interfaces) = 2
    /\ sel.result # None
    /\ sel.result[1] = sel.interfaces[1]
    /\ sel.interfaces[1] \in DOMAIN interface_metrics
    /\ sel.interfaces[2] \notin DOMAIN interface_metrics

\* C9: select_balanced returns for Gaming what select_by_latency returns, for
\* Streaming and FileTransfer what select_by_bandwidth returns, and for Web
\* and Unknown an interface whose weighted score no other interface exceeds.
C9_BalancedDelegates ==
    sel.fn = "select_balanced" =>
        CASE sel.traffic_type = "Gaming" ->
                 sel.result = select_by_latency(sel.interfaces, interface_metrics)
          [] sel.traffic_type \in {"Streaming", "File"} ->
                 sel.result = select_by_bandwidth(sel.interfaces, interface_metrics)
          [] OTHER ->
                 IF sel.interfaces = <<>> THEN sel.result = None
                 ELSE /\ sel.result # None
                      /\ \E p \in 1..Len(sel.interfaces) :
                            sel.interfaces[p] = sel.result[1]
                      /\ \A k \in 1..Len(sel.interfaces) :
                            FracCmp(calculate_interface_score(sel.interfaces[k],
                                                              interface_metrics),
                                    calculate_interface_score(sel.result[1],
                                                              interface_metrics))
                                # "Greater"

\* Streaming traffic on a slice where the latency policy and the bandwidth
\* policy disagree
C9_StreamingWherePoliciesDiffer ==
    /\ sel.fn = "select_balanced"
    /\ sel.traffic_type = "Streaming"
    /\ sel.result # None
    /\ select_by_latency(sel.interfaces, interface_metrics)
           # select_by_bandwidth(sel.interfaces, interface_metrics)

C11_ClassificationNeverFails ==
    lastRoute.called
    => LET pkt == lastRoute.pkt
           tooShort == \/ pkt.len < EthernetHeaderLen
                       \/ /\ pkt.ethertype = "Ipv4"
                          /\ pkt.len < EthernetHeaderLen + Ipv4HeaderLen
       IN  /\ analyze_packet(pkt).kind = "Ok"
           /\ lastRoute.result.kind # "ErrParse"
           /\ tooShort => analyze_packet(pkt) = TrafficInfo("Unknown", 1)

\* C12: after an update_interface_metrics call the entry of its index holds
\* exactly the values of that call, every other entry is as it was before
\* the call, and no entry has been removed; no other operation changes the
\* map, so after any sequence of calls each entry holds the values of the
\* most recent call for its index.
C12_MetricsEntryIsLastWrite ==
    lastUpdate.called
    => /\ DOMAIN interface_metrics = (DOMAIN lastUpdate.metrics_before) \cup {lastUpdate.index}
       /\ interface_metrics[lastUpdate.index] = lastUpdate.values
       /\ \A j \in DOMAIN lastUpdate.metrics_before :
              j # lastUpdate.index => interface_metrics[j] = lastUpdate.metrics_before[j]

\* A call that overwrote an entry with different values while another
\* interface had an entry
C12_Overwritten ==
    /\ lastUpdate.called
    /\ lastUpdate.index \in DOMAIN lastUpdate.metrics_before
    /\ lastUpdate.metrics_before[lastUpdate.index] # lastUpdate.values
    /\ \E j \in DOMAIN lastUpdate.metrics_before : j # lastUpdate.index

\* C16: the confidence of a routing decision is 1/2 when the chosen
\* interface has no metrics entry, and otherwise (L + (1 - packet_loss)) / 2
\* with L = 9/10 for a recorded latency below 50 ms and 6/10 otherwise; it
\* is the same under every load-balancing mode that chooses that interface.
C16_ConfidenceFromChosenEntry ==
    (lastRoute.called /\ lastRoute.result.kind = "Ok")
    => LET i == lastRoute.result.interface_index
           before == lastRoute.metrics_before
           conf == lastRoute.result.confidence
       IN  /\ i \notin DOMAIN before => conf.n * 2 = conf.d
           /\ i \in DOMAIN before
              => LET loss == before[i].packet_loss
                     L == IF before[i].latency < 50 THEN 9 ELSE 6
                 \* conf = (L/10 + (1 - loss)) / 2
                 IN  conf.n * 20 * loss.d
                        = conf.d * (L * loss.d + 10 * (loss.d - loss.n))
           /\ \A mode \in LoadBalancingModes :
                 LET other == route_packet(lastRoute.pkt, interfaces, mode,
                                           lastRoute.counter_before, before).result
                 IN  (other.kind = "Ok" /\ other.interface_index = i)
                     => other.confidence = conf

\* A decision for an interface recorded at 20 ms with loss 1/10: confidence 9/10
C16_LowLatencyConfidence ==
    /\ lastRoute.called
    /\ lastRoute.result.kind = "Ok"
    /\ lastRoute.result.interface_index \in DOMAIN lastRoute.metrics_before
    /\ lastRoute.metrics_before[lastRoute.result.interface_index].latency = 20
    /\ lastRoute.metrics_before[lastRoute.result.interface_index].packet_loss = Frac(1, 10)
    /\ lastRoute.result.confidence.n * 10 = lastRoute.result.confidence.d * 9

\* the calls made so far are all among ops
OnlyCalls(ops) == \A k \in 1..Len(calls) : calls[k].op \in ops

\* the arguments of the calls of op, in call order
ArgsOf(op, cs) ==
    LET IsOp(c) == c.op = op
    IN  [k \in 1..Len(SelectSeq(cs, IsOp)) |-> SelectSeq(cs, IsOp)[k].arg]

\* the caller waits for a lock whose guard it holds itself: with no other
\* task to release it the call it is in never returns
SelfDeadlocked ==
    \/ callerPc \in {"bandwidth_stats", "average_stats"} /\ stats_lock.writer = "caller"
    \/ callerPc = "update_average" /\ latency_lock.writer = "caller"

\* C13: after any sequence of record_packet_received and
\* record_packet_dropped calls, packet_loss_rate equals packets_dropped /
\* packets_received, and is 0 while packets_received is 0.
C13_LossRateIsDroppedOverReceived ==
    (/\ OnlyCalls({"record_packet_received", "record_packet_dropped"})
     /\ callerPc = "idle")
    => IF stats.packets_received = 0
       THEN stats.packet_loss_rate.n = 0
       ELSE stats.packet_loss_rate.n * stats.packets_received
               = stats.packet_loss_rate.d * stats.packets_dropped

\* C14: every record_processing_latency call returns, and after n >= 1 of
\* them average_latency is the mean of the last min(n, max_history_size)
\* samples.
C14_AverageOfRetainedSamples ==
    (calls # <<>> /\ OnlyCalls({"record_processing_latency"}))
    => /\ ~SelfDeadlocked
       /\ callerPc = "idle"
          => LET samples == ArgsOf("record_processing_latency", calls)
                 n == Len(samples)
                 kept == IF n > max_history_size THEN max_history_size ELSE n
                 window == SubSeq(samples, n - kept + 1, n)
             IN  stats.average_latency * kept = SumSeq(window)

\* C15: on a fresh monitor every record_packet_received and
\* record_packet_forwarded call returns, and a snapshot taken after them
\* has packets_received and packets_forwarded equal to the numbers of the
\* respective calls and bytes_received and bytes_forwarded equal to the sums
\* of their arguments.
C15_SnapshotCountsCalls ==
    LET n == Len(calls)
        snapped == n > 0 /\ calls[n].op = "get_current_stats"
        recorded == IF snapped THEN SubSeq(calls, 1, n - 1) ELSE calls
        received == ArgsOf("record_packet_received", recorded)
        forwarded == ArgsOf("record_packet_forwarded", recorded)
    IN  (\A k \in 1..Len(recorded) :
             recorded[k].op \in {"record_packet_received", "record_packet_forwarded"})
        => /\ ~SelfDeadlocked
           /\ (snapped /\ callerPc = "idle")
              => /\ snapshot.stats.packets_received = Len(received)
                 /\ snapshot.stats.packets_forwarded = Len(forwarded)
                 /\ snapshot.stats.bytes_received = SumSeq(received)
                 /\ snapshot.stats.bytes_forwarded = SumSeq(forwarded)

\* the statistics reset_stats promises, all but uptime
AllZero(st) ==
    /\ st.packets_received = 0
    /\ st.packets_forwarded = 0
    /\ st.packets_dropped = 0
    /\ st.bytes_received = 0
    /\ st.bytes_forwarded = 0
    /\ st.average_latency = 0
    /\ st.packet_loss_rate.n = 0
    /\ st.bandwidth_usage = 0

\* C20: when reset_stats has returned every counter, average_latency,
\* packet_loss_rate and bandwidth_usage is 0 and both histories are empty,
\* and start_time is still the creation time: a snapshot taken next shows
\* the zeros and an uptime counted from the creation of the monitor.
C20_ResetZeroesAllButUptime ==
    LET n == Len(calls)
    IN  /\ (n >= 1 /\ callerPc = "idle" /\ calls[n].op = "reset_stats")
           => /\ AllZero(stats)
              /\ latency_history = <<>>
              /\ throughput_history = <<>>
              /\ start_time = 0
        /\ (/\ n >= 2
            /\ callerPc = "idle"
            /\ calls[n].op = "get_current_stats"
            /\ calls[n - 1].op = "reset_stats")
           => /\ AllZero(snapshot.stats)
              /\ snapshot.stats.uptime = snapshot.at

\* received, dropped (loss rate 1), reset, then a snapshot at a later time
C20_ResetAfterLoss ==
    /\ Len(calls) = 4
    /\ calls[1].op = "record_packet_received"
    /\ calls[2].op = "record_packet_dropped"
    /\ calls[3].op = "reset_stats"
    /\ calls[4].op = "get_current_stats"
    /\ callerPc = "idle"
    /\ snapshot.taken
    /\ snapshot.stats.uptime > 0

\* C17: get_performance_stats is rejected exactly when AppState.is_running
\* is not set, and a call that was accepted and returns while is_running is
\* still set returns the statistics of the started adapter.
C17_StatsWheneverRunning ==
    [][/\ (/\ ctlPc = "idle"
           /\ ctlOp' = "get_performance_stats"
           /\ <<ctlOp, ctlResult, ctlPc>>' # <<ctlOp, ctlResult, ctlPc>>)
          => IF app_is_running
             THEN ctlPc' = "stats_read"
             ELSE ctlPc' = "idle" /\ ctlResult' = "ErrNotRunning"
       /\ (ctlPc = "stats_read" /\ ctlPc' = "idle" /\ app_is_running)
          => /\ ctlResult' = "OkStats"
             /\ virtual_interface # None
             /\ virtual_interface[1] \in started
      ]_vars

\* C18: set_load_balancing_mode returns an error when the mode string is not
\* one of the four recognized ones or when AppState.is_running is not set,
\* and the rejecting call changes neither the mode of any router, nor the
\* round-robin cursor, the metrics map or the running state.
C18_RejectedModeChangesNothing ==
    [][/\ (/\ ctlOp' = "set_load_balancing_mode"
           /\ ctlPc = "idle"
           /\ ctlPc' = "idle"
           /\ <<ctlOp, ctlResult>>' # <<ctlOp, ctlResult>>)
          => /\ ctlResult' \in {"ErrNotRunning", "ErrInvalidMode"}
             /\ (ctlResult' = "ErrNotRunning") = ~app_is_running
             /\ UNCHANGED <<vniMode, routerVars, app_is_running, virtual_interface,
                            vni_lock, vniFlag, vniState, live>>
       /\ (ctlPc = "idle" /\ ctlPc' = "mode_write")
          => /\ app_is_running
             /\ ctlArg' \in {"round_robin", "latency_based", "bandwidth_based",
                             "balanced"}
      ]_vars

\* an unrecognized mode string was rejected while a pipeline was running
\* under a mode set earlier
C18_InvalidRejectedWhileRunning ==
    /\ ctlOp = "set_load_balancing_mode"
    /\ ctlPc = "idle"
    /\ ctlResult = "ErrInvalidMode"
    /\ app_is_running
    /\ \E a \in Adapters : vniState[a] = "running" /\ vniMode[a] # "Balanced"

\* C19: a set_load_balancing_mode call with a recognized mode string, made
\* and returning while AppState.is_running is set, succeeds and leaves the
\* service's adapter in the requested mode; no other step changes the mode
\* of a router.
C19_RecognizedModeWhileRunningSucceeds ==
    [][/\ (ctlPc = "mode_write" /\ ctlPc' = "idle" /\ app_is_running)
          => /\ ctlResult' = "OkModeSet"
             /\ virtual_interface # None
             /\ vniMode'[virtual_interface[1]] = ParseMode(ctlArg)[1]
       /\ \A a \in Adapters :
             vniMode'[a] # vniMode[a] => ctlPc = "mode_write" /\ ctlPc' = "idle"
      ]_vars

(***************************************************************************)
(* The processor task after a packet.                                      *)
(***************************************************************************)
\* the packet the processor took last
LastProcessed == processed[Len(processed)]

\* routing or the physical send of the packet taken last has failed
LastFailed ==
    /\ processed # <<>>
    /\ \/ LastProcessed.route = "failed"
       \/ LastProcessed.send = "failed"

\* the processor waits for a lock whose guard it holds itself: no other task
\* can release it, so process_packet never returns and no packet is taken again
ProcSelfDeadlocked ==
    \/ procPc = "bandwidth_stats" /\ stats_lock.writer = "processor"
    \/ procPc = "update_average" /\ latency_lock.writer = "processor"

\* C21: a routing failure or a physical-send failure of one packet never
\* ends the processor: after either failure the processor loop is alive
\* (never waiting for ever inside process_packet) and can go on to take the
\* next queued packet.
C21_FailureLeavesProcessorAlive == LastFailed => ~ProcSelfDeadlocked

\* C22: when the reader task has ended while the running flag is still set,
\* the processor loop processes the packets still buffered in the queue
\* (it never waits for ever inside one of them) and then exits normally:
\* when it has exited, every enqueued packet has been taken and it has not
\* panicked.
C22_DrainsQueueThenExitsOk ==
    (readerPc = "done" /\ is_running)
    => /\ ~ProcSelfDeadlocked
       /\ procPc # "panicked"
       /\ procPc = "done" => (queue = <<>> /\ Len(processed) = Len(enqueued))

\* C23: once the running flag of the pipeline has been cleared, no loop
\* starts a new iteration: a loop at its flag check exits, an exited loop
\* stays exited, and the only unit of work still done is the one of the
\* iteration under way (the reader enqueues at most the packet it holds,
\* the processor takes at most the packet it is receiving, the monitor
\* writes at most the update it is about to make) after which the loop is
\* back at its flag check.
C23_NoNewIterationAfterFlagCleared ==
    [][(~is_running /\ runPc = "done")
       => /\ readerPc' = "recv" => readerPc = "recv"
          /\ readerPc = "check" => readerPc' \in {"check", "done"}
          /\ readerPc = "done" => readerPc' = "done"
          /\ enqueued' # enqueued
             => /\ readerPc = "send" /\ readerPc' = "check"
                /\ Len(enqueued') = Len(enqueued) + 1
          /\ procPc' = "recv" => procPc = "recv"
          /\ procPc = "check" => procPc' \in {"check", "done"}
          /\ procPc = "done" => procPc' = "done"
          /\ Len(processed') # Len(processed)
             => /\ procPc = "recv"
                /\ Len(processed') = Len(processed) + 1
          /\ monitorPc' = "tick" => monitorPc = "tick"
          /\ monitorPc = "check" => monitorPc' \in {"check", "done"}
          /\ monitorPc = "done" => monitorPc' = "done"
          /\ (interface_metrics' # interface_metrics \/ lastUpdate' # lastUpdate)
             => monitorPc = "update" /\ monitorPc' = "check"]_vars

\* the flag is cleared while the monitor loop is inside an iteration, with
\* its metrics update still to come
C23_ClearedDuringIteration ==
    ~is_running /\ runPc = "done" /\ monitorPc = "update"

\* C24: for every packet the processor takes, process_packet records
\* exactly one processing-latency sample, whatever the packet's outcome,
\* and returns: the processor never waits for ever inside process_packet,
\* and whenever it is between packets the latency window holds one sample
\* per packet taken (the last max_history_size of them).
C24_OneLatencySamplePerPacket ==
    /\ ~ProcSelfDeadlocked
    /\ procPc \in {"check", "recv", "done"}
       => Len(latency_history)
            = IF Len(processed) > max_history_size
              THEN max_history_size ELSE Len(processed)

\* C25: no packet is lost silently at the queue boundary: while the running
\* flag is set a packet waiting in the queue can still be dequeued (the
\* processor is not waiting for ever inside an earlier packet), and every
\* packet dequeued is counted in packets_received.
C25_QueuedPacketsGetProcessed ==
    /\ (is_running /\ queue # <<>>) => ~ProcSelfDeadlocked
    /\ procPc # "record_received" => stats.packets_received = Len(processed)

(***************************************************************************)
(* Ties and scores in the selection policies.                              *)
(***************************************************************************)
\* the two interfaces compare Equal under the comparison of the policy fn
ComparesEqual(fn, a, b) ==
    CASE fn = "select_by_latency" -> EffectiveLatency(a) = EffectiveLatency(b)
      [] fn = "select_by_bandwidth" -> EffectiveUsage(a) = EffectiveUsage(b)
      [] OTHER -> FracCmp(calculate_interface_score(a, interface_metrics),
                          calculate_interface_score(b, interface_metrics)) = "Equal"

\* the position of an interface in the slice of the recorded call
SlicePos(i) == CHOOSE p \in 1..Len(sel.interfaces) : sel.interfaces[p] = i

WeightedSelection ==
    \/ sel.fn = "select_weighted_best"
    \/ sel.fn = "select_balanced" /\ sel.traffic_type \in {"Web", "Unknown"}

\* C27: in weighted-score selection an interface without a metrics entry
\* has score 0 and is selected only if no interface of the slice has an
\* entry: whenever at least one has an entry (its packet loss in [0, 1]),
\* the selected interface is one that has an entry.
C27_UnmeasuredOnlyWhenNoneMeasured ==
    (WeightedSelection /\ sel.result # None)
    => /\ \A k \in 1..Len(sel.interfaces) :
             sel.interfaces[k] \notin DOMAIN interface_metrics
             => calculate_interface_score(sel.interfaces[k], interface_metrics)
                    = Frac(0, 1)
       /\ (\E k \in 1..Len(sel.interfaces) :
               sel.interfaces[k] \in DOMAIN interface_metrics)
          => sel.result[1] \in DOMAIN interface_metrics

\* the only measured interface has the worst sampled values (total loss,
\* highest latency and usage) and comes before an unmeasured one; it is
\* selected
C27_WorstMeasuredBeatsUnmeasured ==
    /\ WeightedSelection
    /\ Len(sel.interfaces) = 2
    /\ sel.interfaces[1] \in DOMAIN interface_metrics
    /\ sel.interfaces[2] \notin DOMAIN interface_metrics
    /\ interface_metrics[sel.interfaces[1]]
         = PacketMetrics(DefaultLatencyMs + 1, U64_MAX, Frac(1, 1))
    /\ sel.result = Some(sel.interfaces[1])

(***************************************************************************)
(* SpecWindow: the two history windows of a PerformanceMonitor as          *)
(* functions of the window and the sample: record_processing_latency and   *)
(* record_packet_forwarded called on every window within the bound.        *)
(***************************************************************************)
\* a window of n earlier samples 1, 2, .., n, oldest first
EarlierLatencies(n) == [k \in 1..n |-> k]
EarlierThroughput(n) == [k \in 1..n |-> ThroughputMeasurement(0, k)]

InitWindow ==
    /\ AppInit
    /\ RouterInit(DiscoveredInterfaces)
    /\ CallInit
    /\ PipeInit
    /\ ApiInit
    /\ stats = NewStats
    /\ latency_history \in {EarlierLatencies(n) : n \in 0..max_history_size}
    /\ throughput_history \in {EarlierThroughput(n) : n \in 0..max_history_size}
    /\ stats_lock = FreeLock
    /\ latency_lock = FreeLock
    /\ throughput_lock = FreeLock

NextWindow ==
    \/ Tick
    \/ \E b \in ByteCounts : Call("record_packet_forwarded", b)
    \/ \E l \in ApiLatencies : Call("record_processing_latency", l)
    \/ CallerStatsWrite
    \/ CallerThroughputWrite
    \/ CallerLatencyLock

SpecWindow == InitWindow /\ [][NextWindow]_vars

\* the window after x is recorded into window h: x is appended, and the
\* oldest sample leaves exactly when h was full
Recorded(h, x) ==
    (IF Len(h) = max_history_size THEN Tail(h) ELSE h) \o <<x>>

\* C28: the latency window and the throughput history each hold at most
\* max_history_size samples in insertion order: a step that changes a
\* window appends the recorded sample at the end, keeps the order of the
\* others and evicts exactly the oldest one when the window was full.
C28_WindowsBoundedFifo ==
    [][/\ Len(latency_history') <= max_history_size
       /\ Len(throughput_history') <= max_history_size
       /\ latency_history' # latency_history
          => latency_history' = Recorded(latency_history, callerArg)
       /\ throughput_history' # throughput_history
          => throughput_history'
               = Recorded(throughput_history, ThroughputMeasurement(clock, callerArg))
      ]_vars

\* a forward event was recorded into a full throughput history: the oldest
\* entry is gone, the second oldest is now first, the new one is last, and
\* the history lock is free
C28_OldestEvicted ==
    /\ throughput_lock = FreeLock
    /\ Len(throughput_history) = max_history_size
    /\ throughput_history[1] = ThroughputMeasurement(0, 2)
    /\ throughput_history[max_history_size].bytes \in ByteCounts

\* C29: every forward event is recorded (its call returns), and the
\* bandwidth_usage of a snapshot taken at time t is the sum of the bytes of
\* the forward events recorded in [t - 1 s, t]: 0 once nothing has been
\* forwarded for more than a second.
C29_BandwidthIsLastSecondsBytes ==
    LET n == Len(calls)
        snapped == n > 0 /\ calls[n].op = "get_current_stats" /\ callerPc = "idle"
    IN  OnlyCalls({"record_packet_forwarded", "get_current_stats"})
        => /\ ~SelfDeadlocked
           /\ snapped => snapshot.stats.bandwidth_usage
                           = RecentBytes(throughput_history, snapshot.at)

\* the monitor loop waits for a lock whose guard the processor holds while
\* the processor itself can never go on
MonitorBlockedForever ==
    /\ ProcSelfDeadlocked
    /\ \/ monitorPc = "stats" /\ stats_lock.writer = "processor"
       \/ monitorPc = "update" /\ "processor" \in router_lock.readers

\* C30: while the pipeline is running the monitor loop keeps completing
\* iterations: it is never blocked for ever by the processor task, and the
\* entry each iteration writes has the bandwidth usage and packet loss of
\* the snapshot taken in that iteration, under an interface index of the
\* set route_packet selects from.
C30_MonitorKeepsUpdating ==
    /\ is_running => ~MonitorBlockedForever
    /\ (lastUpdate.called /\ monitorPc \in {"check", "tick", "stats", "done"})
       => /\ lastUpdate.values.bandwidth_usage = monitorStats.bandwidth_usage
          /\ lastUpdate.values.packet_loss = monitorStats.packet_loss_rate
          /\ lastUpdate.index \in Elems(get_available_interfaces(interfaces).interfaces)

(***************************************************************************)
(* SpecClassify: route_packet on full-length TCP and UDP packets to every  *)
(* destination port the classifier's tables name.                          *)
(***************************************************************************)
StreamingPorts == {1935, 554, 5004, 5005, 1234}
FileTransferPorts == {21, 22, 989, 990}
WebPorts == {80, 443, 8080, 8443, 53}

TablePackets ==
    { Packet(64, "Ipv4", proto, dport, 0) :
        proto \in {"Tcp", "Udp"},
        dport \in StreamingPorts \cup FileTransferPorts \cup WebPorts }

NextClassify ==
    \/ \E pkt \in TablePackets : RoutePacket(pkt)
    \/ \E mode \in LoadBalancingModes : SetLoadBalancingMode(mode)

SpecClassify == InitRouter /\ [][NextClassify]_vars

\* C31: for TCP and for UDP alike, a packet to a media-streaming port
\* (1935, 554, 5004, 5005, 1234) is classified Streaming with priority 3,
\* one to a file-transfer port (21, 22, 989, 990) FileTransfer with
\* priority 1, and one to a web port (80, 443, 8080, 8443) or to DNS (53)
\* Web; no other table entry overrides these.
C31_PortTableClassification ==
    lastRoute.called
    => LET info == analyze_packet(lastRoute.pkt)
           dport == lastRoute.pkt.dport
       IN  /\ dport \in StreamingPorts => info = TrafficInfo("Streaming", 3)
           /\ dport \in FileTransferPorts => info = TrafficInfo("File", 1)
           /\ dport \in WebPorts => (info.kind = "Ok" /\ info.traffic_type = "Web")

\* C32: every record operation of the PerformanceMonitor terminates: a
\* record_packet_forwarded or record_processing_latency call made while no
\* other task holds a monitor lock never waits for a lock it holds itself,
\* and once the caller is between calls the stats, latency-history and
\* throughput-history locks are all released.
C32_RecordOperationsTerminate ==
    /\ ~SelfDeadlocked
    /\ callerPc = "idle"
       => /\ stats_lock = FreeLock
          /\ latency_lock = FreeLock
          /\ throughput_lock = FreeLock

(***************************************************************************)
(* SpecReset: one PerformanceMonitor, a task making record calls one after *)
(* the other and a second task calling reset_stats once, interleaved.      *)
(***************************************************************************)
resetUnchanged == <<routerVars, callVars, pipeVars, appVars, ctlVars, clock,
                    start_time, callerPc, callerArg, callerLocal, snapshot>>

WasReset == \E k \in 1..Len(calls) : calls[k].op = "reset_stats"

\* the second task calls reset_stats
ResetCall ==
    /\ resetPc = "idle"
    /\ ~WasReset
    /\ resetPc' = "stats"
    /\ UNCHANGED <<resetUnchanged, perfVars, calls>>

\* the log with the reset entered at the point its stats write takes effect:
\* before a record call of the other task that still waits for the stats lock
LogReset(log, pending) ==
    LET entry == [op |-> "reset_stats", arg |-> 0]
    IN  IF pending /\ log # <<>>
        THEN Append(SubSeq(log, 1, Len(log) - 1), entry) \o <<log[Len(log)]>>
        ELSE Append(log, entry)

\* reset_stats: self.stats.write().await is granted, *stats = zeroes; the
\* guard stays alive to the end of the function
ResetStatsWrite ==
    /\ resetPc = "stats"
    /\ CanWrite(stats_lock)
    /\ stats' = ResetStats(stats)
    /\ stats_lock' = [stats_lock EXCEPT !.writer = "resetter"]
    /\ calls' = LogReset(calls, callerPc \in {"record_packet_received",
                                              "record_packet_dropped",
                                              "record_packet_forwarded"})
    /\ resetPc' = "latency"
    /\ UNCHANGED <<resetUnchanged, latency_history, throughput_history,
                   latency_lock, throughput_lock>>

\* reset_stats: self.latency_history.write().await is granted, clear()
ResetLatencyWrite ==
    /\ resetPc = "latency"
    /\ CanWrite(latency_lock)
    /\ latency_history' = <<>>
    /\ latency_lock' = [latency_lock EXCEPT !.writer = "resetter"]
    /\ resetPc' = "throughput"
    /\ UNCHANGED <<resetUnchanged, stats, throughput_history, stats_lock,
                   throughput_lock, calls>>

\* reset_stats: self.throughput_history.write().await is granted, clear();
\* the function returns and its guards are dropped
ResetThroughputWrite ==
    /\ resetPc = "throughput"
    /\ CanWrite(throughput_lock)
    /\ throughput_history' = <<>>
    /\ stats_lock' = FreeLock
    /\ latency_lock' = FreeLock
    /\ resetPc' = "idle"
    /\ UNCHANGED <<resetUnchanged, stats, latency_history, throughput_lock, calls>>

NextReset ==
    \/ \E b \in ByteCounts : Call("record_packet_received", b)
    \/ \E b \in ByteCounts : Call("record_packet_forwarded", b)
    \/ Call("record_packet_dropped", 0)
    \/ \E l \in ApiLatencies : Call("record_processing_latency", l)
    \/ CallerStatsWrite
    \/ CallerThroughputWrite
    \/ CallerLatencyLock
    \/ ResetCall
    \/ ResetStatsWrite
    \/ ResetLatencyWrite
    \/ ResetThroughputWrite

SpecReset == InitMonitor /\ [][NextReset]_vars

\* reset_stats waits for a lock that the recording task holds and can never
\* release, with its own stats guard held
ResetBlockedForever ==
    /\ SelfDeadlocked
    /\ \/ resetPc = "stats" /\ stats_lock.writer = "caller"
       \/ resetPc = "latency" /\ latency_lock.writer = "caller"

\* the record calls logged after the reset
AfterReset ==
    LET r == CHOOSE k \in 1..Len(calls) : calls[k].op = "reset_stats"
    IN  SubSeq(calls, r + 1, Len(calls))

\* C33: reset_stats interleaves with record calls of another task without
\* deadlock and without corrupting counters: no call waits for ever, and
\* once all calls have completed the counters are those of the record
\* calls ordered after the reset.
C33_ResetInterleavesSafely ==
    /\ (WasReset \/ resetPc # "idle") => (~SelfDeadlocked /\ ~ResetBlockedForever)
    /\ (WasReset /\ callerPc = "idle" /\ resetPc = "idle")
       => /\ stats.packets_received
               = Len(ArgsOf("record_packet_received", AfterReset))
          /\ stats.bytes_received
               = SumSeq(ArgsOf("record_packet_received", AfterReset))
          /\ stats.packets_dropped
               = Len(ArgsOf("record_packet_dropped", AfterReset))
          /\ stats.packets_forwarded
               = Len(ArgsOf("record_packet_forwarded", AfterReset))

\* adapters with at least one pipeline loop (reader, processor, monitor) live
LivePipelines == {a \in Adapters : live[a] # {}}

\* C34: for every interleaving of start_netboost and stop_netboost calls
\* at most one adapter pipeline is live at any time, and AppState.is_running
\* is false only when no pipeline loop is live.
C34_OnePipelineCoveredByFlag ==
    /\ Cardinality(LivePipelines) <= 1
    /\ ~app_is_running => LivePipelines = {}

\* positions of the processor between the record_packet_received of the
\* packet it holds and the record of that packet's outcome
AwaitingOutcome == {"route", "send", "record_dropped", "record_forwarded"}

\* a loss ratio within [0, 1]
IsRatio(f) == f.d > 0 /\ 0 <= f.n /\ f.n <= f.d

\* C35: in every state of a pipeline whose statistics were never reset,
\* packets_received = packets_forwarded + packets_dropped + k with k = 1
\* while the processor holds a packet it has recorded as received but whose
\* outcome it has not recorded yet, and k = 0 otherwise; packets_dropped
\* never exceeds packets_received, and the packet loss the monitor loop
\* writes to the router's metrics is within [0, 1].
C35_CountersBalance ==
    LET k == IF procPc \in AwaitingOutcome THEN 1 ELSE 0
    IN  /\ stats.packets_received
               = stats.packets_forwarded + stats.packets_dropped + k
        /\ stats.packets_dropped <= stats.packets_received
        /\ IsRatio(stats.packet_loss_rate)
        /\ lastUpdate.called => IsRatio(lastUpdate.values.packet_loss)

\* the one packet of the run was recorded as received, then as dropped, and
\* the monitor loop has written the resulting loss ratio 1/1 to the router
C35_DroppedLossWritten ==
    /\ stats.packets_received = 1
    /\ stats.packets_dropped = 1
    /\ stats.packets_forwarded = 0
    /\ procPc \notin AwaitingOutcome
    /\ lastUpdate.called
    /\ lastUpdate.values.packet_loss = Frac(1, 1)

====
